---- MODULE Spec2Model ----
(***************************************************************************)
(* Model of the interactive episode renamer                                *)
(* (src/interactive_episode_renamer.py, and its rich twin                  *)
(* src/interactive_episode_renamer_with_rich.py, whose extractor, renderer *)
(* and plan-building loops are the same code).                             *)
(*                                                                         *)
(* Text is modelled as a sequence of one-character strings, so that the    *)
(* regular expressions, str.strip, str.zfill, int(), str.format and        *)
(* os.path.splitext are computed character by character as Python does.    *)
(***************************************************************************)
EXTENDS Integers, Sequences, FiniteSets, TLC

\* ------------------------------------------------------------------------
\* Characters and the str methods the program uses
\* ------------------------------------------------------------------------

DigitChars == <<"0", "1", "2", "3", "4", "5", "6", "7", "8", "9">>

\* \d of the patterns, and str.isdigit, on the ASCII range
Digit == {DigitChars[i] : i \in 1..10}

\* str.strip() without argument, and \s of the patterns
Whitespace == {" ", "\t", "\n", "\r"}

\* the character class [\s._-] of the four patterns
SepClass == Whitespace \cup {".", "_", "-"}

\* the argument of groups[0].strip(' ._-')
StripChars == {" ", ".", "_", "-"}

\* the character class [<>:"/\\|?*] of generate_standard_name
UnsafeChars == {"<", ">", ":", "\"", "/", "\\", "|", "?", "*"}

UpperChars == <<"A", "B", "C", "D", "E", "F", "G", "H", "I", "J", "K", "L", "M",
                "N", "O", "P", "Q", "R", "S", "T", "U", "V", "W", "X", "Y", "Z">>

LowerChars == <<"a", "b", "c", "d", "e", "f", "g", "h", "i", "j", "k", "l", "m",
                "n", "o", "p", "q", "r", "s", "t", "u", "v", "w", "x", "y", "z">>

\* str.lower() of one character
LowerChar(c) ==
    IF \E i \in 1..26 : UpperChars[i] = c
    THEN LowerChars[CHOOSE i \in 1..26 : UpperChars[i] = c]
    ELSE c

\* str.lower()
Lower(s) == [i \in 1..Len(s) |-> LowerChar(s[i])]

RECURSIVE LStrip(_, _)
LStrip(s, chars) ==
    IF s # <<>> /\ Head(s) \in chars THEN LStrip(Tail(s), chars) ELSE s

RECURSIVE RStrip(_, _)
RStrip(s, chars) ==
    IF s # <<>> /\ s[Len(s)] \in chars
    THEN RStrip(SubSeq(s, 1, Len(s) - 1), chars)
    ELSE s

\* str.strip(chars): both ends
StripOf(s, chars) == RStrip(LStrip(s, chars), chars)

\* str.strip(): surrounding whitespace
Strip(s) == StripOf(s, Whitespace)

\* str.isdigit(): non-empty and digits only
IsDigit(s) == s # <<>> /\ \A i \in 1..Len(s) : s[i] \in Digit

DigitVal(c) == (CHOOSE i \in 1..10 : DigitChars[i] = c) - 1

RECURSIVE DigitsToInt(_)
DigitsToInt(s) ==
    IF s = <<>> THEN 0
    ELSE 10 * DigitsToInt(SubSeq(s, 1, Len(s) - 1)) + DigitVal(s[Len(s)])

\* int(s) on the strings the program passes to it: surrounding whitespace
\* is ignored, a digit string gives its value, anything else is a ValueError
IntOk(s) == IsDigit(Strip(s))

ParseInt(s) == DigitsToInt(Strip(s))

\* str(n) for n >= 0
RECURSIVE IntToStr(_)
IntToStr(n) ==
    IF n < 10 THEN <<DigitChars[n + 1]>>
    ELSE IntToStr(n \div 10) \o <<DigitChars[(n % 10) + 1]>>

RECURSIVE Zeros(_)
Zeros(n) == IF n <= 0 THEN <<>> ELSE <<"0">> \o Zeros(n - 1)

\* ZFill, were nothing put in front
ZFillNone(s, width) == s

\* str.zfill(width) of a string without sign
ZFill(s, width) == Zeros(width - Len(s)) \o s

\* str.rfind of one character: the last index (1-based), 0 when absent
RFind(s, c) ==
    IF \E i \in 1..Len(s) : s[i] = c
    THEN CHOOSE i \in 1..Len(s) : s[i] = c /\ \A j \in (i + 1)..Len(s) : s[j] # c
    ELSE 0

\* os.path.splitext (posixpath): the extension starts at the last dot, when
\* that dot comes after the last "/" and after a character that is not a dot
SplitextAt(p) ==
    LET sepIndex == RFind(p, "/")
        dotIndex == RFind(p, ".")
    IN  IF dotIndex > sepIndex
           /\ \E k \in (sepIndex + 1)..(dotIndex - 1) : p[k] # "."
        THEN dotIndex
        ELSE Len(p) + 1

SplitextName(p) == SubSeq(p, 1, SplitextAt(p) - 1)

\* SplitextExt, were the extension lower-cased as the video filter does
SplitextExtLower(p) == Lower(SubSeq(p, SplitextAt(p), Len(p)))

SplitextExt(p) == SubSeq(p, SplitextAt(p), Len(p))

\* ------------------------------------------------------------------------
\* re.search for the patterns of extract_episode_info: a pattern is a
\* sequence of quantified character classes, matched with Python's
\* backtracking order (greedy: longest first, lazy: shortest first)
\* ------------------------------------------------------------------------

\* one quantified class: "any" is the dot (every character but a newline);
\* max = -1 is a quantifier without upper limit (*, +)
Item(any, cls, min, max, lazy) ==
    [any |-> any, cls |-> cls, min |-> min, max |-> max, lazy |-> lazy]

\* re.IGNORECASE: a letter of the pattern matches both cases
Lit(c) == {c, LowerChar(c)}

Accepts(it, c) == IF it.any THEN c # "\n" ELSE c \in it.cls

RECURSIVE RunLen(_, _, _)
RunLen(s, it, pos) ==
    IF pos > Len(s) \/ ~Accepts(it, s[pos]) THEN 0
    ELSE 1 + RunLen(s, it, pos + 1)

MatchFail == [ok |-> FALSE, ends |-> <<>>]

RECURSIVE MatchItems(_, _, _, _)
RECURSIVE TryCounts(_, _, _, _, _, _)

\* items k.. of the pattern matched at position pos: the end of every item
MatchItems(s, items, k, pos) ==
    IF k > Len(items) THEN [ok |-> TRUE, ends |-> <<>>]
    ELSE LET it == items[k]
             run == RunLen(s, it, pos)
             hi == IF it.max < 0 \/ run < it.max THEN run ELSE it.max
         IN  IF hi < it.min THEN MatchFail
             ELSE TryCounts(s, items, k, pos, IF it.lazy THEN it.min ELSE hi, hi)

\* item k taking n characters, then the next count in backtracking order
TryCounts(s, items, k, pos, n, hi) ==
    IF n < items[k].min \/ n > hi THEN MatchFail
    ELSE LET rest == MatchItems(s, items, k + 1, pos + n)
         IN  IF rest.ok
             THEN [ok |-> TRUE, ends |-> <<pos + n>> \o rest.ends]
             ELSE TryCounts(s, items, k, pos,
                            IF items[k].lazy THEN n + 1 ELSE n - 1, hi)

RECURSIVE SearchFrom(_, _, _)
SearchFrom(s, items, start) ==
    IF start > Len(s) + 1 THEN [ok |-> FALSE, start |-> 0, ends |-> <<>>]
    ELSE LET m == MatchItems(s, items, 1, start)
         IN  IF m.ok THEN [ok |-> TRUE, start |-> start, ends |-> m.ends]
             ELSE SearchFrom(s, items, start + 1)

\* re.search(pattern, s, re.IGNORECASE): the leftmost match
re_search(pat, s) == SearchFrom(s, pat.items, 1)

\* the text item k of the pattern matched
ItemText(s, m, k) ==
    SubSeq(s, IF k = 1 THEN m.start ELSE m.ends[k - 1], m.ends[k] - 1)

\* match.groups()
MatchGroups(pat, s, m) ==
    [g \in 1..Len(pat.groups) |-> ItemText(s, m, pat.groups[g])]

AnyLazy == Item(TRUE, {}, 1, -1, TRUE)
Seps == Item(FALSE, SepClass, 0, -1, FALSE)
DigitRun == Item(FALSE, Digit, 1, -1, FALSE)
OptLit(c) == Item(FALSE, Lit(c), 0, 1, FALSE)
OneLit(c) == Item(FALSE, Lit(c), 1, 1, FALSE)

\* r'(.+?)[\s._-]*S?(\d+)[\s._-]*E?(\d+)'
Pattern1 ==
    [items |-> <<AnyLazy, Seps, OptLit("S"), DigitRun, Seps, OptLit("E"), DigitRun>>,
     groups |-> <<1, 4, 7>>]

\* r'(.+?)[\s._-]*(\d+)[\s._-]*(\d{2})'
Pattern2 ==
    [items |-> <<AnyLazy, Seps, DigitRun, Seps, Item(FALSE, Digit, 2, 2, FALSE)>>,
     groups |-> <<1, 3, 5>>]

\* r'(.+?)[\s._-]*EP?[\s._-]*(\d+)'
Pattern3 ==
    [items |-> <<AnyLazy, Seps, OneLit("E"), OptLit("P"), Seps, DigitRun>>,
     groups |-> <<1, 6>>]

\* r'(.+?)[\s._-]*(\d+)[\s._-]*of[\s._-]*\d+'
Pattern4 ==
    [items |-> <<AnyLazy, Seps, DigitRun, Seps, OneLit("O"), OneLit("F"), Seps, DigitRun>>,
     groups |-> <<1, 3>>]

\* patterns, were the EP pattern listed first
patternsReordered == <<Pattern3, Pattern1, Pattern2, Pattern4>>

patterns == <<Pattern1, Pattern2, Pattern3, Pattern4>>

\* GroupsInfo, were the two numeric groups taken in the other order
GroupsInfoSwapped(groups) ==
    [title |-> StripOf(groups[1], StripChars),
     season |-> IF Len(groups) > 2 THEN groups[3] ELSE groups[2],
     episode |-> IF Len(groups) > 1 THEN groups[2] ELSE <<"1">>]

\* the dictionary built from the groups of a match
GroupsInfo(groups) ==
    [title |-> StripOf(groups[1], StripChars),
     season |-> IF Len(groups) > 1 THEN groups[2] ELSE <<"1">>,
     episode |-> IF Len(groups) > 2 THEN groups[3] ELSE groups[2]]

\* FallbackInfo, were the extension left in the title
FallbackInfoWholeName(filename) ==
    [title |-> filename, season |-> <<"1">>, episode |-> <<"1">>]

\* the dictionary returned when no pattern matched
FallbackInfo(filename) ==
    [title |-> SplitextName(filename), season |-> <<"1">>, episode |-> <<"1">>]

\* pattern i matches and its match is used
RuleMatches(i, filename) ==
    LET m == re_search(patterns[i], filename)
    IN  m.ok /\ Len(patterns[i].groups) >= 2

RuleInfo(i, filename) ==
    GroupsInfo(MatchGroups(patterns[i], filename, re_search(patterns[i], filename)))

\* the loop "for pattern in patterns", from pattern i on
RECURSIVE ExtractFrom(_, _)
ExtractFrom(filename, i) ==
    IF i > Len(patterns) THEN FallbackInfo(filename)
    ELSE IF RuleMatches(i, filename) THEN RuleInfo(i, filename)
    ELSE ExtractFrom(filename, i + 1)

extract_episode_info(filename) == ExtractFrom(filename, 1)

\* ------------------------------------------------------------------------
\* str.format(season=..., episode=..., title=...) on the naming pattern.
\* Covered: literal text, the escapes {{ and }}, replacement fields
\* {name}, {name:spec}, {name[k]} and {name.__class__} with a format
\* specification made of an optional 0, a width and an optional type d or s.
\* A failed call (KeyError, IndexError, ValueError, TypeError,
\* AttributeError) is the result [ok |-> FALSE].
\* ------------------------------------------------------------------------

StrVal(s) == [kind |-> "str", s |-> s, n |-> 0]

IntVal(n) == [kind |-> "int", s |-> <<>>, n |-> n]

FmtFail == [ok |-> FALSE, text |-> <<>>]

FmtOk(text) == [ok |-> TRUE, text |-> text]

\* the first index >= from of a character of the set cs, 0 when there is none
FindFirst(s, cs, from) ==
    IF \E i \in from..Len(s) : s[i] \in cs
    THEN CHOOSE i \in from..Len(s) : s[i] \in cs /\ \A j \in from..(i - 1) : s[j] \notin cs
    ELSE 0

RECURSIVE Spaces(_)
Spaces(n) == IF n <= 0 THEN <<>> ELSE <<" ">> \o Spaces(n - 1)

\* ApplySpec, were an integer without format specification given the
\* specification 02d
ApplySpecDefaultWidth(v, spec) ==
    LET given == IF v.kind = "int" /\ spec = <<>> THEN <<"0", "2", "d">> ELSE spec
        zero == given # <<>> /\ given[1] = "0"
        afterZero == IF zero THEN Tail(given) ELSE given
        wlen == RunLen(afterZero, Item(FALSE, Digit, 0, -1, FALSE), 1)
        width == DigitsToInt(SubSeq(afterZero, 1, wlen))
        type == SubSeq(afterZero, wlen + 1, Len(afterZero))
    IN  IF Len(type) > 1 THEN FmtFail
        ELSE IF v.kind = "int"
        THEN IF type \notin {<<>>, <<"d">>} THEN FmtFail
             ELSE LET digits == IntToStr(v.n)
                  IN  FmtOk((IF zero THEN Zeros(width - Len(digits))
                                     ELSE Spaces(width - Len(digits))) \o digits)
        ELSE IF type \notin {<<>>, <<"s">>} THEN FmtFail
             ELSE FmtOk(v.s \o (IF zero THEN Zeros(width - Len(v.s))
                                        ELSE Spaces(width - Len(v.s))))

\* format(value, spec)
ApplySpec(v, spec) ==
    LET zero == spec # <<>> /\ spec[1] = "0"
        afterZero == IF zero THEN Tail(spec) ELSE spec
        wlen == RunLen(afterZero, Item(FALSE, Digit, 0, -1, FALSE), 1)
        width == DigitsToInt(SubSeq(afterZero, 1, wlen))
        type == SubSeq(afterZero, wlen + 1, Len(afterZero))
    IN  IF Len(type) > 1 THEN FmtFail
        ELSE IF v.kind = "int"
        THEN IF type \notin {<<>>, <<"d">>} THEN FmtFail
             ELSE LET digits == IntToStr(v.n)
                  IN  FmtOk((IF zero THEN Zeros(width - Len(digits))
                                     ELSE Spaces(width - Len(digits))) \o digits)
        ELSE IF type \notin {<<>>, <<"s">>} THEN FmtFail
             ELSE FmtOk(v.s \o (IF zero THEN Zeros(width - Len(v.s))
                                        ELSE Spaces(width - Len(v.s))))

\* the object a field name selects among the keyword arguments
FieldObject(name, kw) ==
    LET cut == FindFirst(name, {".", "["}, 1)
        first == IF cut = 0 THEN name ELSE SubSeq(name, 1, cut - 1)
        rest == IF cut = 0 THEN <<>> ELSE SubSeq(name, cut, Len(name))
        known == first \in DOMAIN kw
    IN  IF ~known THEN [ok |-> FALSE, v |-> StrVal(<<>>)]
        ELSE IF rest = <<>> THEN [ok |-> TRUE, v |-> kw[first]]
        ELSE IF rest = <<".", "_", "_", "c", "l", "a", "s", "s", "_", "_">>
        THEN [ok |-> TRUE,
              v |-> StrVal(<<"<", "c", "l", "a", "s", "s", " ", "'">>
                           \o (IF kw[first].kind = "int" THEN <<"i", "n", "t">>
                                                          ELSE <<"s", "t", "r">>)
                           \o <<"'", ">">>)]
        ELSE IF Head(rest) = "[" /\ rest[Len(rest)] = "]" /\ Len(rest) > 2
                /\ IsDigit(SubSeq(rest, 2, Len(rest) - 1))
                /\ kw[first].kind = "str"
                /\ DigitsToInt(SubSeq(rest, 2, Len(rest) - 1)) < Len(kw[first].s)
        THEN [ok |-> TRUE,
              v |-> StrVal(<<kw[first].s[DigitsToInt(SubSeq(rest, 2, Len(rest) - 1)) + 1]>>)]
        ELSE [ok |-> FALSE, v |-> StrVal(<<>>)]

\* one replacement field, the text between { and }
FormatField(field, kw) ==
    LET colon == FindFirst(field, {":"}, 1)
        name == IF colon = 0 THEN field ELSE SubSeq(field, 1, colon - 1)
        spec == IF colon = 0 THEN <<>> ELSE SubSeq(field, colon + 1, Len(field))
        obj == FieldObject(name, kw)
    IN  IF obj.ok THEN ApplySpec(obj.v, spec) ELSE FmtFail

FmtPrepend(text, r) == IF r.ok THEN FmtOk(text \o r.text) ELSE FmtFail

RECURSIVE FormatFrom(_, _, _)
FormatFrom(t, i, kw) ==
    IF i > Len(t) THEN FmtOk(<<>>)
    ELSE IF t[i] = "{"
    THEN IF i < Len(t) /\ t[i + 1] = "{" THEN FmtPrepend(<<"{">>, FormatFrom(t, i + 2, kw))
         ELSE LET j == FindFirst(t, {"}"}, i + 1)
              IN  IF j = 0 \/ FindFirst(SubSeq(t, 1, j), {"{"}, i + 1) # 0 THEN FmtFail
                  ELSE LET f == FormatField(SubSeq(t, i + 1, j - 1), kw)
                       IN  IF f.ok THEN FmtPrepend(f.text, FormatFrom(t, j + 1, kw))
                           ELSE FmtFail
    ELSE IF t[i] = "}"
    THEN IF i < Len(t) /\ t[i + 1] = "}" THEN FmtPrepend(<<"}">>, FormatFrom(t, i + 2, kw))
         ELSE FmtFail
    ELSE FmtPrepend(<<t[i]>>, FormatFrom(t, i + 1, kw))

\* the keyword names are TLA+ strings, the field names character sequences
KwSeason == <<"s", "e", "a", "s", "o", "n">>
KwEpisode == <<"e", "p", "i", "s", "o", "d", "e">>
KwTitle == <<"t", "i", "t", "l", "e">>

\* naming_pattern.format(season=season, episode=episode, title=title)
Format(t, season, episode, title) ==
    FormatFrom(t, 1, (KwSeason :> StrVal(season)) @@ (KwEpisode :> IntVal(episode))
                     @@ (KwTitle :> StrVal(title)))

\* Sanitize, were the * left out of the character class
SanitizeNoStar(title) ==
    [i \in 1..Len(title) |-> IF title[i] \in UnsafeChars \ {"*"} THEN "_" ELSE title[i]]

\* re.sub(r'[<>:"/\\|?*]', '_', title)
Sanitize(title) ==
    [i \in 1..Len(title) |-> IF title[i] \in UnsafeChars THEN "_" ELSE title[i]]

\* FallbackName, were the fixed text Unknown returned
FallbackNameUnknown(episode_info) == <<"U", "n", "k", "n", "o", "w", "n">>

\* the except branch: return episode_info.get('title', 'Unknown')
FallbackName(episode_info) == episode_info.title

\* generate_standard_name(episode_info, naming_pattern)
generate_standard_name(episode_info, naming_pattern) ==
    IF ~IntOk(episode_info.episode) THEN FallbackName(episode_info)
    ELSE LET season == ZFill(episode_info.season, 2)
             episode == ParseInt(episode_info.episode)
             title == Sanitize(Strip(episode_info.title))
             r == Format(naming_pattern, season, episode, title)
         IN  IF r.ok THEN r.text ELSE FallbackName(episode_info)

\* ------------------------------------------------------------------------
\* The batch rename session: interactive_batch_rename and the three
\* strategies smart_rename, manual_rename and unified_rename
\* ------------------------------------------------------------------------

\* the largest directory listing of the model
MaxEntries == 2

video_extensions ==
    {<<".", "m", "p", "4">>,
     <<".", "m", "k", "v">>,
     <<".", "a", "v", "i">>,
     <<".", "m", "o", "v">>,
     <<".", "w", "m", "v">>,
     <<".", "f", "l", "v">>,
     <<".", "w", "e", "b", "m">>,
     <<".", "m", "4", "v">>,
     <<".", "m", "p", "g">>,
     <<".", "m", "p", "e", "g">>,
     <<".", "t", "s">>,
     <<".", "m", "2", "t", "s">>,
     <<".", "v", "o", "b">>,
     <<".", "i", "s", "o">>}

\* Preset1, were the width of the episode left out
Preset1NoWidth == <<"{", "t", "i", "t", "l", "e", "}", ".", "S", "{", "s", "e", "a", "s", "o", "n", "}", "E", "{", "e", "p", "i", "s", "o", "d", "e", "}">>

\* "{title}.S{season}E{episode:02d}"
Preset1 == <<"{", "t", "i", "t", "l", "e", "}", ".", "S", "{", "s", "e", "a", "s", "o", "n", "}", "E", "{", "e", "p", "i", "s", "o", "d", "e", ":", "0", "2", "d", "}">>

\* "Season_{season}_Episode_{episode:02d}_{title}"
Preset2 == <<"S", "e", "a", "s", "o", "n", "_", "{", "s", "e", "a", "s", "o", "n", "}", "_", "E", "p", "i", "s", "o", "d", "e", "_", "{", "e", "p", "i", "s", "o", "d", "e", ":", "0", "2", "d", "}", "_", "{", "t", "i", "t", "l", "e", "}">>

\* what the user may type at the custom naming pattern prompt
CustomPool == {<<>>, <<"{", "t", "i", "t", "l", "e", "}", "-", "{", "e", "p", "i", "s", "o", "d", "e", "}">>, <<"{", "f", "o", "o", "}">>}

\* directory entries the remote store may list: video files, one of them
\* with an upper-case extension, a text file and a directory named like a video
EntryPool ==
    {[name |-> <<"S", "h", "o", "w", ".", "S", "0", "1", "E", "0", "2", ".", "m", "k", "v">>, is_dir |-> FALSE],
     [name |-> <<"b", "0", "9", ".", "M", "K", "V">>, is_dir |-> FALSE],
     [name |-> <<"R", "a", "n", "d", "o", "m", ".", "a", "v", "i">>, is_dir |-> FALSE],
     [name |-> <<"n", "o", "t", "e", "s", ".", "t", "x", "t">>, is_dir |-> FALSE],
     [name |-> <<"O", "l", "d", ".", "m", "k", "v">>, is_dir |-> TRUE]}

\* a listing holds every name once, in any order
Listings ==
    {l \in UNION {[1..n -> EntryPool] : n \in 0..MaxEntries} :
        \A i, j \in 1..Len(l) : l[i].name = l[j].name => i = j}

\* answers typed at a menu prompt
ChoicePool == {<<"1">>, <<"2">>, <<"3">>, <<"4">>, <<"9">>}

\* answers typed at the confirmation prompt; the empty line is the default
ConfirmPool == {<<>>, <<"y">>, <<" ", "Y">>, <<"y", "e", "s">>, <<"n">>, <<"y", "y">>}

\* answers typed at the show name prompt
ShowNamePool == {<<>>, <<" ">>, <<"F", "o", "o">>, <<"A", ":", "B">>}

\* answers typed at the season prompt and at the start episode prompt
SeasonPool == {<<>>, <<"0", "2">>, <<"1", "2">>, <<"x">>, <<"²">>}

StartPool == {<<>>, <<"0", "5">>, <<"0", "0">>, <<"n">>, <<"²">>}

\* answers typed at the new name prompt of manual_rename
NewNamePool == {<<>>, <<" ">>, <<"N", ".", "m", "k", "v">>, <<" ", "x", " ">>}

VARIABLES
    token,            \* self.token: TRUE when a JWT is held
    current_path,     \* self.current_path
    remote,           \* the content the remote store lists for current_path
    requests,         \* the HTTP requests sent so far
    pc,               \* where the session stands
    mode,             \* the strategy chosen: "smart", "manual", "unified"
    video_files,      \* the names of video_files, in listing order
    idx,              \* the file the plan-building loop is at
    typed,            \* manual_rename: the lines typed at its prompts so far
    naming_pattern,
    show_name,
    season,
    start_episode,
    current_episode,
    rename_mapping,   \* the dict, as the sequence of its items
    shown,            \* the plan lines printed under "重命名计划:"
    displayed,        \* whether the plan was printed
    confirm,          \* the answer to the confirmation prompt, as typed
    calls,            \* the calls of batch_rename: src_dir and rename_mapping
    outcome,          \* how the session ended
    ex_filename,      \* extract_episode_info: its argument
    ex_pc,            \* extract_episode_info: "idle", "loop" or "returned"
    ex_i,             \* extract_episode_info: the pattern the loop is at
    ex_tried,         \* extract_episode_info: the patterns searched so far
    ex_info,          \* extract_episode_info: the dictionary returned
    gs_episode_info,  \* generate_standard_name: its argument episode_info
    gs_pattern,       \* generate_standard_name: its argument naming_pattern
    gs_pc,            \* generate_standard_name: "idle", "try", "format", "except", "returned"
    gs_season,        \* generate_standard_name: the local season
    gs_episode,       \* generate_standard_name: the local episode
    gs_title,         \* generate_standard_name: the local title
    gs_result,        \* generate_standard_name: the value returned
    built,            \* the plans of the strategy calls finished so far, with their answers
    selected_item,    \* interactive_rename_single_item: selected_item, a sequence of 0 or 1 entry
    si_new_name       \* interactive_rename_single_item: new_name, as stripped

sessionVars == <<token, current_path, remote, requests, pc, mode, video_files, idx,
                 typed, naming_pattern, show_name, season, start_episode,
                 current_episode, rename_mapping, shown, displayed, confirm, calls,
                 outcome>>

exVars == <<ex_filename, ex_pc, ex_i, ex_tried, ex_info>>

gsVars == <<gs_episode_info, gs_pattern, gs_pc, gs_season, gs_episode, gs_title, gs_result>>

flowVars == <<built, selected_item, si_new_name>>

vars == <<sessionVars, exVars, gsVars, flowVars>>

\* DictSet, were the new name used as the key
DictSetNewKey(m, k, v) == Append(m, [old |-> v, new |-> v])

\* rename_mapping[k] = v on a dict kept in insertion order
DictSet(m, k, v) ==
    IF \E i \in 1..Len(m) : m[i].old = k
    THEN [i \in 1..Len(m) |-> IF m[i].old = k THEN [old |-> k, new |-> v] ELSE m[i]]
    ELSE Append(m, [old |-> k, new |-> v])

DictKeys(m) == {m[i].old : i \in 1..Len(m)}

\* list_files: the entries of the listing that are not directories, in order
RECURSIVE list_files(_)
list_files(contents) ==
    IF contents = <<>> THEN <<>>
    ELSE (IF ~Head(contents).is_dir THEN <<Head(contents)>> ELSE <<>>)
         \o list_files(Tail(contents))

\* IsVideo, were the extension compared as written
IsVideoCaseSensitive(filename) == SplitextExt(filename) \in video_extensions

\* the test of the video filter of interactive_batch_rename
IsVideo(filename) == Lower(SplitextExt(filename)) \in video_extensions

\* the video filter of interactive_batch_rename
RECURSIVE FilterVideo(_)
FilterVideo(files) ==
    IF files = <<>> THEN <<>>
    ELSE (IF IsVideo(Head(files).name) THEN <<Head(files)>> ELSE <<>>)
         \o FilterVideo(Tail(files))

Names(files) == [i \in 1..Len(files) |-> files[i].name]

NoInfo == [title |-> <<>>, season |-> <<>>, episode |-> <<>>]

Init ==
    /\ token \in BOOLEAN
    /\ current_path = "/tv"
    /\ remote \in Listings
    /\ requests = <<>>
    /\ pc = "start"
    /\ mode = "none"
    /\ video_files = <<>>
    /\ idx = 0
    /\ typed = <<>>
    /\ naming_pattern = <<>>
    /\ show_name = <<>>
    /\ season = <<>>
    /\ start_episode = <<>>
    /\ current_episode = 0
    /\ rename_mapping = <<>>
    /\ shown = <<>>
    /\ displayed = FALSE
    /\ confirm = <<>>
    /\ calls = <<>>
    /\ outcome = "none"
    /\ ex_filename = <<>>
    /\ ex_pc = "idle"
    /\ ex_i = 0
    /\ ex_tried = <<>>
    /\ ex_info = NoInfo
    /\ gs_episode_info = NoInfo
    /\ gs_pattern = <<>>
    /\ gs_pc = "idle"
    /\ gs_season = <<>>
    /\ gs_episode = 0
    /\ gs_title = <<>>
    /\ gs_result = <<>>
    /\ built = <<>>
    /\ selected_item = <<>>
    /\ si_new_name = <<>>

Finish(how) == pc' = "done" /\ outcome' = how

\* interactive_batch_rename up to the strategy menu: list_files, the video
\* filter and the two early returns
ListFiles ==
    /\ pc = "start"
    /\ \E answered \in BOOLEAN :
        LET contents == IF token /\ answered THEN remote ELSE <<>>
            files == list_files(contents)
            videos == FilterVideo(files)
        IN  /\ requests' = IF token
                           THEN Append(requests, [api |-> "list", path |-> current_path,
                                                  objects |-> <<>>])
                           ELSE requests
            /\ IF files = <<>> THEN Finish("no_files") /\ video_files' = <<>>
               ELSE IF videos = <<>> THEN Finish("no_videos") /\ video_files' = <<>>
               ELSE pc' = "choose" /\ outcome' = outcome /\ video_files' = Names(videos)
    /\ UNCHANGED <<token, current_path, remote, mode, idx, naming_pattern, show_name,
                   season, current_episode, rename_mapping, shown, displayed,
                   confirm, calls>>
    /\ UNCHANGED <<start_episode, typed>>
    /\ UNCHANGED exVars
    /\ UNCHANGED gsVars
    /\ UNCHANGED flowVars

\* the strategy menu of interactive_batch_rename
ChooseMode ==
    /\ pc = "choose"
    /\ \E choice \in ChoicePool :
        LET c == Strip(choice)
        IN  IF c = <<"1">> THEN mode' = "smart" /\ pc' = "smart_pattern" /\ outcome' = outcome
            ELSE IF c = <<"2">>
            THEN mode' = "manual" /\ pc' = "manual_loop" /\ outcome' = outcome
            ELSE IF c = <<"3">>
            THEN mode' = "unified" /\ pc' = "unified_show_name" /\ outcome' = outcome
            ELSE IF c = <<"4">> THEN mode' = mode /\ Finish("back")
            ELSE mode' = mode /\ Finish("invalid_choice")
    /\ idx' = 1
    /\ UNCHANGED <<token, current_path, remote, requests, video_files, naming_pattern,
                   show_name, season, current_episode, rename_mapping, shown,
                   displayed, confirm, calls>>
    /\ UNCHANGED <<start_episode, typed>>
    /\ UNCHANGED exVars
    /\ UNCHANGED gsVars
    /\ UNCHANGED flowVars

\* the naming pattern menu, shared by smart_rename and unified_rename
ChosenPattern(choice, custom) ==
    IF choice = <<"2">> THEN Preset2
    ELSE IF choice = <<"3">> THEN (IF Strip(custom) = <<>> THEN Preset1 ELSE Strip(custom))
    ELSE Preset1

\* smart_rename: the naming pattern menu
SmartPattern ==
    /\ pc = "smart_pattern"
    /\ \E choice \in ChoicePool, custom \in CustomPool :
        naming_pattern' = ChosenPattern(Strip(choice), custom)
    /\ rename_mapping' = <<>>
    /\ idx' = 1
    /\ pc' = "smart_loop"
    /\ UNCHANGED <<token, current_path, remote, requests, mode, video_files, show_name,
                   season, current_episode, shown, displayed, confirm, calls, outcome>>
    /\ UNCHANGED <<start_episode, typed>>
    /\ UNCHANGED exVars
    /\ UNCHANGED gsVars
    /\ UNCHANGED flowVars

\* SmartName, were the pattern rendered from the file stem without extraction
SmartNameNoExtract(filename, pattern) ==
    generate_standard_name(FallbackInfo(filename), pattern) \o SplitextExt(filename)

\* the new name smart_rename gives a file
SmartName(filename, pattern) ==
    generate_standard_name(extract_episode_info(filename), pattern)
        \o SplitextExt(filename)

\* SmartStep, were the directory listed again for every file
SmartStepRelisting ==
    /\ pc = "smart_loop"
    /\ idx <= Len(video_files)
    /\ LET filename == video_files[idx]
       IN  rename_mapping' = DictSet(rename_mapping, filename,
                                     SmartName(filename, naming_pattern))
    /\ idx' = idx + 1
    /\ requests' = Append(requests, [api |-> "list", path |-> current_path,
                                     objects |-> <<>>])
    /\ UNCHANGED <<token, current_path, remote, pc, mode, video_files,
                   naming_pattern, show_name, season, current_episode, shown,
                   displayed, confirm, calls, outcome>>
    /\ UNCHANGED <<start_episode, typed>>
    /\ UNCHANGED exVars
    /\ UNCHANGED gsVars
    /\ UNCHANGED flowVars

\* smart_rename: one iteration of "for file in video_files"
SmartStep ==
    /\ pc = "smart_loop"
    /\ idx <= Len(video_files)
    /\ LET filename == video_files[idx]
       IN  rename_mapping' = DictSet(rename_mapping, filename,
                                     SmartName(filename, naming_pattern))
    /\ idx' = idx + 1
    /\ UNCHANGED <<token, current_path, remote, requests, pc, mode, video_files,
                   naming_pattern, show_name, season, current_episode, shown,
                   displayed, confirm, calls, outcome>>
    /\ UNCHANGED <<start_episode, typed>>
    /\ UNCHANGED exVars
    /\ UNCHANGED gsVars
    /\ UNCHANGED flowVars

\* ManualUpdate, were a skipped file mapped to itself
ManualUpdateSelf(m, old_name, new_name) ==
    DictSet(m, old_name, IF new_name # <<>> THEN new_name ELSE old_name)

\* manual_rename: "if new_name: rename_mapping[old_name] = new_name"
ManualUpdate(m, old_name, new_name) ==
    IF new_name # <<>> THEN DictSet(m, old_name, new_name) ELSE m

\* manual_rename: one iteration of "for file in video_files", with its prompt
ManualStep ==
    /\ pc = "manual_loop"
    /\ idx <= Len(video_files)
    /\ \E line \in NewNamePool :
        /\ typed' = Append(typed, line)
        /\ rename_mapping' = ManualUpdate(rename_mapping, video_files[idx], Strip(line))
    /\ idx' = idx + 1
    /\ UNCHANGED <<token, current_path, remote, requests, pc, mode, video_files,
                   naming_pattern, show_name, season, current_episode, shown,
                   displayed, confirm, calls, outcome>>
    /\ UNCHANGED <<start_episode>>
    /\ UNCHANGED exVars
    /\ UNCHANGED gsVars
    /\ UNCHANGED flowVars

\* unified_rename: the show name prompt
UnifiedShowName ==
    /\ pc = "unified_show_name"
    /\ \E line \in ShowNamePool :
        /\ show_name' = Strip(line)
        /\ IF Strip(line) = <<>> THEN Finish("empty_show_name")
           ELSE pc' = "unified_season" /\ outcome' = outcome
    /\ UNCHANGED <<token, current_path, remote, requests, mode, video_files, idx,
                   naming_pattern, season, current_episode, rename_mapping, shown,
                   displayed, confirm, calls>>
    /\ UNCHANGED <<start_episode, typed>>
    /\ UNCHANGED exVars
    /\ UNCHANGED gsVars
    /\ UNCHANGED flowVars

\* a character str.isdigit accepts and int() rejects
SuperscriptDigits == {"²"}

\* str.isdigit
StrIsDigit(s) == s # <<>> /\ \A i \in 1..Len(s) : s[i] \in Digit \cup SuperscriptDigits

\* whether str(int(x)) raises ValueError on an answer that passed isdigit
NormalizeRaises(line) == StrIsDigit(Strip(line)) /\ ~IntOk(Strip(line))

\* the normalisation of the season and start episode answers
NormalizeNumber(line) ==
    LET v == Strip(line)
    IN  IF v = <<>> \/ ~StrIsDigit(v) THEN <<"1">> ELSE IntToStr(ParseInt(v))

\* unified_rename: the season prompt; the ValueError of int() is caught
\* neither in unified_rename nor in interactive_batch_rename
UnifiedSeason ==
    /\ pc = "unified_season"
    /\ \E line \in SeasonPool :
        /\ typed' = Append(typed, line)
        /\ IF NormalizeRaises(line)
           THEN Finish("value_error") /\ season' = season
           ELSE season' = NormalizeNumber(line) /\ pc' = "unified_start"
                /\ outcome' = outcome
    /\ UNCHANGED <<token, current_path, remote, requests, mode, video_files, idx,
                   naming_pattern, show_name, current_episode, rename_mapping, shown,
                   displayed, confirm, calls>>
    /\ UNCHANGED <<start_episode>>
    /\ UNCHANGED exVars
    /\ UNCHANGED gsVars
    /\ UNCHANGED flowVars

\* unified_rename: the start episode prompt; current_episode = int(start_episode)
UnifiedStart ==
    /\ pc = "unified_start"
    /\ \E line \in StartPool :
        /\ typed' = Append(typed, line)
        /\ IF NormalizeRaises(line)
           THEN Finish("value_error") /\ UNCHANGED <<start_episode, current_episode>>
           ELSE /\ start_episode' = NormalizeNumber(line)
                /\ current_episode' = ParseInt(NormalizeNumber(line))
                /\ pc' = "unified_pattern"
                /\ outcome' = outcome
    /\ UNCHANGED <<token, current_path, remote, requests, mode, video_files, idx,
                   naming_pattern, show_name, season, rename_mapping, shown,
                   displayed, confirm, calls>>
    /\ UNCHANGED exVars
    /\ UNCHANGED gsVars
    /\ UNCHANGED flowVars

\* unified_rename: the naming pattern menu
UnifiedPattern ==
    /\ pc = "unified_pattern"
    /\ \E choice \in ChoicePool, custom \in CustomPool :
        naming_pattern' = ChosenPattern(Strip(choice), custom)
    /\ rename_mapping' = <<>>
    /\ idx' = 1
    /\ pc' = "unified_loop"
    /\ UNCHANGED <<token, current_path, remote, requests, mode, video_files, show_name,
                   season, current_episode, shown, displayed, confirm, calls, outcome>>
    /\ UNCHANGED <<start_episode, typed>>
    /\ UNCHANGED exVars
    /\ UNCHANGED gsVars
    /\ UNCHANGED flowVars

\* the call naming_pattern.format(...) of unified_rename
UnifiedFormat(pattern, seas, episode, title) ==
    Format(pattern, ZFill(seas, 2), episode, title)

\* NextEpisode, were the increment forgotten
NextEpisodeStuck(episode) == episode

\* "current_episode += 1"
NextEpisode(episode) == episode + 1

\* unified_rename: one iteration of "for file in video_files"; an exception
\* of str.format is not caught in unified_rename nor in
\* interactive_batch_rename and ends the session in interactive_navigate
UnifiedStep ==
    /\ pc = "unified_loop"
    /\ idx <= Len(video_files)
    /\ LET old_name == video_files[idx]
           r == UnifiedFormat(naming_pattern, season, current_episode, show_name)
       IN  IF r.ok
           THEN /\ rename_mapping' = DictSet(rename_mapping, old_name,
                                             r.text \o SplitextExt(old_name))
                /\ current_episode' = NextEpisode(current_episode)
                /\ idx' = idx + 1
                /\ UNCHANGED <<pc, outcome>>
           ELSE /\ Finish("exception")
                /\ UNCHANGED <<rename_mapping, current_episode, idx>>
    /\ UNCHANGED <<token, current_path, remote, requests, mode, video_files,
                   naming_pattern, show_name, season, shown, displayed, confirm, calls>>
    /\ UNCHANGED <<start_episode, typed>>
    /\ UNCHANGED exVars
    /\ UNCHANGED gsVars
    /\ UNCHANGED flowVars

\* NothingSet, were the test of the dict left out of manual_rename
NothingSetNever(strategy, m) == FALSE

\* the else branch of "if rename_mapping:", which only manual_rename has
NothingSet(strategy, m) == strategy = "manual" /\ m = <<>>

\* after the loop: the plan is printed and the confirmation prompt follows;
\* manual_rename prints nothing and returns when the dict is empty
ShowPlan ==
    /\ pc \in {"smart_loop", "manual_loop", "unified_loop"}
    /\ idx > Len(video_files)
    /\ IF NothingSet(mode, rename_mapping)
       THEN Finish("nothing_set") /\ UNCHANGED <<shown, displayed>>
       ELSE /\ shown' = rename_mapping
            /\ displayed' = TRUE
            /\ pc' = "confirm"
            /\ outcome' = outcome
    /\ UNCHANGED <<token, current_path, remote, requests, mode, video_files, idx,
                   naming_pattern, show_name, season, current_episode, rename_mapping,
                   confirm, calls>>
    /\ UNCHANGED <<start_episode, typed>>
    /\ UNCHANGED exVars
    /\ UNCHANGED gsVars
    /\ UNCHANGED flowVars

\* Affirmative, were the empty default answer taken as yes
AffirmativeOrDefault(answer) == Lower(Strip(answer)) \in {<<>>, <<"y">>, <<"y", "e", "s">>}

\* confirm in ['y', 'yes'] after strip().lower()
Affirmative(answer) == Lower(Strip(answer)) \in {<<"y">>, <<"y", "e", "s">>}

\* RenameObjects, were the list built from the last entry to the first
RenameObjectsReversed(m) ==
    [i \in 1..Len(m) |-> [src_name |-> m[Len(m) + 1 - i].old,
                          new_name |-> m[Len(m) + 1 - i].new]]

\* the rename_objects batch_rename builds from the dict
RenameObjects(m) == [i \in 1..Len(m) |-> [src_name |-> m[i].old, new_name |-> m[i].new]]

\* the confirmation prompt and, on yes, batch_rename with its request
Confirm ==
    /\ pc = "confirm"
    /\ \E answer \in ConfirmPool, code200 \in BOOLEAN :
        /\ confirm' = answer
        /\ IF Affirmative(answer)
           THEN /\ calls' = Append(calls, [src_dir |-> current_path,
                                           rename_mapping |-> rename_mapping])
                /\ requests' = IF token
                               THEN Append(requests,
                                           [api |-> "batch_rename", path |-> current_path,
                                            objects |-> RenameObjects(rename_mapping)])
                               ELSE requests
                /\ Finish(IF token /\ code200 THEN "renamed" ELSE "rename_failed")
           ELSE /\ Finish("cancelled")
                /\ UNCHANGED <<calls, requests>>
    /\ UNCHANGED <<token, current_path, remote, mode, video_files, idx, naming_pattern,
                   show_name, season, current_episode, rename_mapping, shown, displayed>>
    /\ UNCHANGED <<start_episode, typed>>
    /\ UNCHANGED exVars
    /\ UNCHANGED gsVars
    /\ UNCHANGED flowVars

\* Ctrl-C at a prompt: KeyboardInterrupt is caught in smart_rename or in
\* interactive_batch_rename and the session ends
AtPrompt ==
    \/ pc \in {"choose", "smart_pattern", "unified_show_name", "unified_season",
               "unified_start", "unified_pattern", "confirm"}
    \/ pc = "manual_loop" /\ idx <= Len(video_files)

Interrupt ==
    /\ AtPrompt
    /\ Finish("interrupted")
    /\ UNCHANGED <<token, current_path, remote, requests, mode, video_files, idx,
                   naming_pattern, show_name, season, current_episode, rename_mapping,
                   shown, displayed, confirm, calls>>
    /\ UNCHANGED <<start_episode, typed>>
    /\ UNCHANGED exVars
    /\ UNCHANGED gsVars
    /\ UNCHANGED flowVars

Next ==
    \/ ListFiles
    \/ ChooseMode
    \/ SmartPattern
    \/ SmartStep
    \/ ManualStep
    \/ UnifiedShowName
    \/ UnifiedSeason
    \/ UnifiedStart
    \/ UnifiedPattern
    \/ UnifiedStep
    \/ ShowPlan
    \/ Confirm
    \/ Interrupt

Spec == Init /\ [][Next]_vars

\* ------------------------------------------------------------------------
\* extract_episode_info run on its own, one pattern of the loop at a time
\* ------------------------------------------------------------------------

ExTitles == {<<"S", "h", "o", "w">>, <<"M", "y", " ", "S", "h", "o", "w">>, <<"A", ".", "B">>, <<"S">>, <<"B", "o", "s", "s">>, <<"R", "a", "n", "d", "o", "m", "N", "a", "m", "e">>}

ExSeps == {<<>>, <<".">>, <<"_">>, <<" ">>, <<" ", "-", " ">>}

ExSeasonDigits == {<<"1">>, <<"0", "1">>, <<"1", "0">>}

ExEpisodeDigits == {<<"2">>, <<"0", "2">>, <<"1", "2">>, <<"0", "0", "3">>}

ExExts == {<<".", "m", "k", "v">>, <<".", "m", "p", "4">>, <<>>}

\* S01E02 and 1x02 markers
ExMarkersSE ==
    {<<c[1]>> \o sd \o <<c[2]>> \o ed :
        c \in {<<"S", "E">>, <<"s", "e">>}, sd \in ExSeasonDigits, ed \in ExEpisodeDigits}

ExMarkersX == {sd \o <<"x">> \o ed : sd \in {<<"1">>, <<"0", "2">>}, ed \in {<<"0", "1">>, <<"3">>}}

\* compact digit runs, E/EP markers, n of m markers, and no marker at all
ExMarkersOther ==
    {<<>>,
     <<"5">>,
     <<"1", "2">>,
     <<"1", "0", "2">>,
     <<"1", "0", "1", "0", "2">>,
     <<"E", "5">>,
     <<"E", "P", "1", "2">>,
     <<"e", "p", " ", "3">>,
     <<"3", " ", "o", "f", " ", "5">>,
     <<"3", " ", "o", "f", " ", "1", "0">>,
     <<"3", "o", "f", "1", "0">>}

ExMarkers == ExMarkersSE \cup ExMarkersX \cup ExMarkersOther

\* names that begin with separators directly followed by the marker
ExSeparatorLed == {<<"-", "0", "1", "-", "0", "2", ".", "m", "k", "v">>, <<".", "S", "0", "1", "E", "0", "2", ".", "m", "k", "v">>}

ExInputs ==
    {t \o sp \o mk \o ext : t \in ExTitles, sp \in ExSeps, mk \in ExMarkers, ext \in ExExts}
    \cup ExSeparatorLed

InitExtract ==
    /\ token = FALSE
    /\ current_path = "/tv"
    /\ remote = <<>>
    /\ requests = <<>>
    /\ pc = "idle"
    /\ mode = "none"
    /\ video_files = <<>>
    /\ idx = 0
    /\ typed = <<>>
    /\ naming_pattern = <<>>
    /\ show_name = <<>>
    /\ season = <<>>
    /\ start_episode = <<>>
    /\ current_episode = 0
    /\ rename_mapping = <<>>
    /\ shown = <<>>
    /\ displayed = FALSE
    /\ confirm = <<>>
    /\ calls = <<>>
    /\ outcome = "none"
    /\ ex_filename \in ExInputs
    /\ ex_pc = "loop"
    /\ ex_i = 1
    /\ ex_tried = <<>>
    /\ ex_info = NoInfo
    /\ gs_episode_info = NoInfo
    /\ gs_pattern = <<>>
    /\ gs_pc = "idle"
    /\ gs_season = <<>>
    /\ gs_episode = 0
    /\ gs_title = <<>>
    /\ gs_result = <<>>
    /\ built = <<>>
    /\ selected_item = <<>>
    /\ si_new_name = <<>>

\* one iteration of "for pattern in patterns": re.search, and the return
\* when it matched
TryPattern ==
    /\ ex_pc = "loop"
    /\ ex_i <= Len(patterns)
    /\ ex_tried' = Append(ex_tried, ex_i)
    /\ IF RuleMatches(ex_i, ex_filename)
       THEN ex_info' = RuleInfo(ex_i, ex_filename) /\ ex_pc' = "returned" /\ ex_i' = ex_i
       ELSE ex_info' = ex_info /\ ex_pc' = ex_pc /\ ex_i' = ex_i + 1
    /\ UNCHANGED <<ex_filename, sessionVars, gsVars, flowVars>>

\* after the loop: no pattern matched
NoPatternMatched ==
    /\ ex_pc = "loop"
    /\ ex_i > Len(patterns)
    /\ ex_info' = FallbackInfo(ex_filename)
    /\ ex_pc' = "returned"
    /\ UNCHANGED <<ex_filename, ex_i, ex_tried, sessionVars, gsVars, flowVars>>

NextExtract ==
    \/ TryPattern
    \/ NoPatternMatched

SpecExtract == InitExtract /\ [][NextExtract]_vars

\* ------------------------------------------------------------------------
\* generate_standard_name run on its own, one statement group at a time
\* ------------------------------------------------------------------------

GsTitles == {<<"F", "o", "o">>, <<" ", "F", "?", "o", " ">>, <<"a", "<", "b", ">", ":", "c">>, <<"q", "\"", "/", "\\", "|", "*">>, <<>>}

GsSeasons == {<<"1">>, <<"0", "1">>, <<"1", "2", "3">>}

GsEpisodes == {<<"3">>, <<"0", "2">>, <<"1", "2", "0">>, <<"x">>, <<>>, <<" ", "7">>}

GsInfos ==
    {[title |-> t, season |-> sn, episode |-> e] :
        t \in GsTitles, sn \in GsSeasons, e \in GsEpisodes}

\* the two presets and custom patterns a user can type
GsPatterns ==
    {Preset1, Preset2,
     <<"{", "t", "i", "t", "l", "e", "}">>,
     <<"{", "s", "e", "a", "s", "o", "n", "}">>,
     <<"{", "e", "p", "i", "s", "o", "d", "e", "}">>,
     <<"{", "e", "p", "i", "s", "o", "d", "e", ":", "3", "d", "}">>,
     <<"{", "e", "p", "i", "s", "o", "d", "e", ":", "0", "2", "d", "}">>,
     <<"{", "f", "o", "o", "}">>,
     <<"{", "t", "i", "t", "l", "e", "}", "{", "x", "}">>,
     <<"{", "0", "}">>,
     <<"{", "}">>,
     <<"{", "t", "i", "t", "l", "e", ".", "_", "_", "c", "l", "a", "s", "s", "_", "_", "}">>,
     <<"{", "t", "i", "t", "l", "e", "[", "0", "]", "}">>,
     <<"{", "t", "i", "t", "l", "e">>}

InitRender ==
    /\ token = FALSE
    /\ current_path = "/tv"
    /\ remote = <<>>
    /\ requests = <<>>
    /\ pc = "idle"
    /\ mode = "none"
    /\ video_files = <<>>
    /\ idx = 0
    /\ typed = <<>>
    /\ naming_pattern = <<>>
    /\ show_name = <<>>
    /\ season = <<>>
    /\ start_episode = <<>>
    /\ current_episode = 0
    /\ rename_mapping = <<>>
    /\ shown = <<>>
    /\ displayed = FALSE
    /\ confirm = <<>>
    /\ calls = <<>>
    /\ outcome = "none"
    /\ ex_filename = <<>>
    /\ ex_pc = "idle"
    /\ ex_i = 0
    /\ ex_tried = <<>>
    /\ ex_info = NoInfo
    /\ gs_episode_info \in GsInfos
    /\ gs_pattern \in GsPatterns
    /\ gs_pc = "try"
    /\ gs_season = <<>>
    /\ gs_episode = 0
    /\ gs_title = <<>>
    /\ gs_result = <<>>
    /\ built = <<>>
    /\ selected_item = <<>>
    /\ si_new_name = <<>>

\* the try block up to the format call: season, episode and title; int()
\* raises ValueError on an episode that is no integer
GsTry ==
    /\ gs_pc = "try"
    /\ gs_season' = ZFill(gs_episode_info.season, 2)
    /\ IF IntOk(gs_episode_info.episode)
       THEN /\ gs_episode' = ParseInt(gs_episode_info.episode)
            /\ gs_title' = Sanitize(Strip(gs_episode_info.title))
            /\ gs_pc' = "format"
       ELSE /\ gs_pc' = "except"
            /\ UNCHANGED <<gs_episode, gs_title>>
    /\ UNCHANGED <<gs_episode_info, gs_pattern, gs_result, sessionVars, exVars, flowVars>>

\* return naming_pattern.format(season=season, episode=episode, title=title)
GsFormat ==
    /\ gs_pc = "format"
    /\ LET r == Format(gs_pattern, gs_season, gs_episode, gs_title)
       IN  IF r.ok
           THEN gs_result' = r.text /\ gs_pc' = "returned"
           ELSE gs_result' = gs_result /\ gs_pc' = "except"
    /\ UNCHANGED <<gs_episode_info, gs_pattern, gs_season, gs_episode, gs_title,
                   sessionVars, exVars, flowVars>>

\* except Exception: the fallback name is returned
GsExcept ==
    /\ gs_pc = "except"
    /\ gs_result' = FallbackName(gs_episode_info)
    /\ gs_pc' = "returned"
    /\ UNCHANGED <<gs_episode_info, gs_pattern, gs_season, gs_episode, gs_title,
                   sessionVars, exVars, flowVars>>

NextRender ==
    \/ GsTry
    \/ GsFormat
    \/ GsExcept

SpecRender == InitRender /\ [][NextRender]_vars

\* ------------------------------------------------------------------------
\* One strategy called twice on the same files with the same parameters:
\* each call starts at the statements that create its local variables
\* ------------------------------------------------------------------------

\* the video_files interactive_batch_rename can hand to a strategy
BuildFiles == {Names(FilterVideo(list_files(l))) : l \in Listings} \ {<<>>}

BuildPatterns == {Preset1, Preset2} \cup (CustomPool \ {<<>>})

InitBuildTwice ==
    /\ token = FALSE
    /\ current_path = "/tv"
    /\ remote = <<>>
    /\ requests = <<>>
    /\ pc = "call"
    /\ video_files \in BuildFiles
    /\ \/ /\ mode = "smart"
          /\ naming_pattern \in BuildPatterns
          /\ show_name = <<>> /\ season = <<>> /\ start_episode = <<>>
       \/ /\ mode = "manual"
          /\ naming_pattern = <<>>
          /\ show_name = <<>> /\ season = <<>> /\ start_episode = <<>>
       \/ /\ mode = "unified"
          /\ naming_pattern \in BuildPatterns
          /\ show_name = <<"F", "o", "o">>
          /\ season \in {<<"1">>, <<"1", "2">>}
          /\ start_episode \in {<<"1">>, <<"5">>}
    /\ idx = 0
    /\ typed = <<>>
    /\ current_episode = 0
    /\ rename_mapping = <<>>
    /\ shown = <<>>
    /\ displayed = FALSE
    /\ confirm = <<>>
    /\ calls = <<>>
    /\ outcome = "none"
    /\ ex_filename = <<>>
    /\ ex_pc = "idle"
    /\ ex_i = 0
    /\ ex_tried = <<>>
    /\ ex_info = NoInfo
    /\ gs_episode_info = NoInfo
    /\ gs_pattern = <<>>
    /\ gs_pc = "idle"
    /\ gs_season = <<>>
    /\ gs_episode = 0
    /\ gs_title = <<>>
    /\ gs_result = <<>>
    /\ built = <<>>
    /\ selected_item = <<>>
    /\ si_new_name = <<>>

\* BuildEnter, were the episode counter created by the first call only
BuildEnterCounterSurvives ==
    /\ pc = "call"
    /\ rename_mapping' = <<>>
    /\ current_episode' = IF mode = "unified" /\ built = <<>>
                          THEN ParseInt(start_episode) ELSE current_episode
    /\ idx' = 1
    /\ typed' = <<>>
    /\ pc' = IF mode = "smart" THEN "smart_loop"
             ELSE IF mode = "manual" THEN "manual_loop" ELSE "unified_loop"
    /\ UNCHANGED <<token, current_path, remote, requests, mode, video_files,
                   naming_pattern, show_name, season, start_episode, shown, displayed,
                   confirm, calls, outcome>>
    /\ UNCHANGED <<exVars, gsVars, flowVars>>

\* the statements before the loop of a strategy: rename_mapping = {} and,
\* in unified_rename, current_episode = int(start_episode)
BuildEnter ==
    /\ pc = "call"
    /\ rename_mapping' = <<>>
    /\ current_episode' = IF mode = "unified" THEN ParseInt(start_episode)
                          ELSE current_episode
    /\ idx' = 1
    /\ typed' = <<>>
    /\ pc' = IF mode = "smart" THEN "smart_loop"
             ELSE IF mode = "manual" THEN "manual_loop" ELSE "unified_loop"
    /\ UNCHANGED <<token, current_path, remote, requests, mode, video_files,
                   naming_pattern, show_name, season, start_episode, shown, displayed,
                   confirm, calls, outcome>>
    /\ UNCHANGED <<exVars, gsVars, flowVars>>

\* the end of the loop: the plan of this call is complete
BuildReturn ==
    /\ pc \in {"smart_loop", "manual_loop", "unified_loop"}
    /\ idx > Len(video_files)
    /\ built' = Append(built, [typed |-> typed, plan |-> rename_mapping])
    /\ pc' = IF built = <<>> THEN "call" ELSE "done"
    /\ UNCHANGED <<token, current_path, remote, requests, mode, video_files, idx, typed,
                   naming_pattern, show_name, season, start_episode, current_episode,
                   rename_mapping, shown, displayed, confirm, calls, outcome>>
    /\ UNCHANGED <<exVars, gsVars, selected_item, si_new_name>>

NextBuildTwice ==
    \/ BuildEnter
    \/ SmartStep
    \/ ManualStep
    \/ UnifiedStep
    \/ BuildReturn

SpecBuildTwice == InitBuildTwice /\ [][NextBuildTwice]_vars

\* ------------------------------------------------------------------------
\* The methods that talk to the remote store, called in any order:
\* login, get_directory_contents, batch_rename and rename_single_item
\* ------------------------------------------------------------------------

\* the number of method calls in a run of the model
MaxCalls == 3

\* the text of self.current_path
PathChars(path) == IF path = "/" THEN <<"/">> ELSE <<"/", "t", "v">>

\* get_directory_contents(path): sent is the request posted, if any;
\* code200 tells whether the store answered with code 200
get_directory_contents(tok, path, listing, code200) ==
    IF ~tok THEN [sent |-> <<>>, none |-> TRUE, content |-> <<>>]
    ELSE [sent |-> <<[api |-> "list", auth |-> tok, path |-> path]>>,
          none |-> ~code200,
          content |-> IF code200 THEN listing ELSE <<>>]

\* batch_rename(src_dir, rename_mapping)
batch_rename(tok, src_dir, m, code200) ==
    IF ~tok THEN [sent |-> <<>>, result |-> FALSE]
    ELSE [sent |-> <<[api |-> "batch_rename", auth |-> tok, path |-> src_dir,
                      objects |-> RenameObjects(m)]>>,
          result |-> code200]

\* rename_single_item, were the token not tested
rename_single_itemUnguarded(tok, path, name, code200) ==
    [sent |-> <<[api |-> "rename", auth |-> tok, path |-> path, name |-> name]>>,
     result |-> code200]

\* rename_single_item(path, new_name)
rename_single_item(tok, path, name, code200) ==
    IF ~tok THEN [sent |-> <<>>, result |-> FALSE]
    ELSE [sent |-> <<[api |-> "rename", auth |-> tok, path |-> path, name |-> name]>>,
          result |-> code200]

ApiMappings ==
    {<<>>,
     <<[old |-> <<"a">>, new |-> <<"b">>]>>,
     <<[old |-> <<"a">>, new |-> <<"b">>], [old |-> <<"c">>, new |-> <<"d">>]>>}

InitApi ==
    /\ token \in BOOLEAN
    /\ current_path = "/tv"
    /\ remote \in {l \in Listings : Len(l) <= 1}
    /\ requests = <<>>
    /\ pc = "api"
    /\ mode = "none"
    /\ video_files = <<>>
    /\ idx = 0
    /\ typed = <<>>
    /\ naming_pattern = <<>>
    /\ show_name = <<>>
    /\ season = <<>>
    /\ start_episode = <<>>
    /\ current_episode = 0
    /\ rename_mapping = <<>>
    /\ shown = <<>>
    /\ displayed = FALSE
    /\ confirm = <<>>
    /\ calls = <<>>
    /\ outcome = "none"
    /\ ex_filename = <<>>
    /\ ex_pc = "idle"
    /\ ex_i = 0
    /\ ex_tried = <<>>
    /\ ex_info = NoInfo
    /\ gs_episode_info = NoInfo
    /\ gs_pattern = <<>>
    /\ gs_pc = "idle"
    /\ gs_season = <<>>
    /\ gs_episode = 0
    /\ gs_title = <<>>
    /\ gs_result = <<>>
    /\ built = <<>>
    /\ selected_item = <<>>
    /\ si_new_name = <<>>

ApiFrame ==
    /\ UNCHANGED <<current_path, remote, pc, mode, video_files, idx, typed,
                   naming_pattern, show_name, season, start_episode, current_episode,
                   rename_mapping, shown, displayed, confirm, outcome>>
    /\ UNCHANGED <<exVars, gsVars, flowVars>>

\* login: the request carries no token; on code 200 the token is stored
ApiLogin ==
    /\ pc = "api" /\ Len(calls) < MaxCalls
    /\ \E code200 \in BOOLEAN :
        /\ requests' = Append(requests, [api |-> "login", auth |-> FALSE, path |-> "/"])
        /\ token' = IF code200 THEN TRUE ELSE token
        /\ calls' = Append(calls, [fn |-> "login", token |-> token, sent |-> 1,
                                   failed |-> ~code200])
    /\ ApiFrame

ApiGetDirectoryContents ==
    /\ pc = "api" /\ Len(calls) < MaxCalls
    /\ \E code200 \in BOOLEAN :
        LET r == get_directory_contents(token, PathChars(current_path), remote, code200)
        IN  /\ requests' = requests \o r.sent
            /\ calls' = Append(calls, [fn |-> "get_directory_contents", token |-> token,
                                       sent |-> Len(r.sent), failed |-> r.none])
    /\ token' = token
    /\ ApiFrame

ApiBatchRename ==
    /\ pc = "api" /\ Len(calls) < MaxCalls
    /\ \E code200 \in BOOLEAN, m \in ApiMappings :
        LET r == batch_rename(token, PathChars(current_path), m, code200)
        IN  /\ requests' = requests \o r.sent
            /\ calls' = Append(calls, [fn |-> "batch_rename", token |-> token,
                                       sent |-> Len(r.sent), failed |-> ~r.result])
    /\ token' = token
    /\ ApiFrame

ApiRenameSingleItem ==
    /\ pc = "api" /\ Len(calls) < MaxCalls
    /\ \E code200 \in BOOLEAN :
        LET r == rename_single_item(token, <<"/", "t", "v", "/", "a">>, <<"b">>, code200)
        IN  /\ requests' = requests \o r.sent
            /\ calls' = Append(calls, [fn |-> "rename_single_item", token |-> token,
                                       sent |-> Len(r.sent), failed |-> ~r.result])
    /\ token' = token
    /\ ApiFrame

NextApi ==
    \/ ApiLogin
    \/ ApiGetDirectoryContents
    \/ ApiBatchRename
    \/ ApiRenameSingleItem

SpecApi == InitApi /\ [][NextApi]_vars

\* ------------------------------------------------------------------------
\* interactive_rename_single_item
\* ------------------------------------------------------------------------

\* answers typed at the selection prompt
SingleChoicePool ==
    {<<>>, <<"D", "1">>, <<"d", "2">>, <<"F", "1">>, <<" ", "f", "2">>, <<"F", "0">>,
     <<"F">>, <<"b", "0", "9", ".", "M", "K", "V">>, <<"O", "l", "d", ".", "m", "k", "v">>,
     <<"n", "o", "p", "e">>}

\* answers typed at the new name prompt
SingleNamePool ==
    {<<>>, <<" ">>, <<"N", ".", "m", "k", "v">>, <<" ", "b", "0", "9", ".", "M", "K", "V">>,
     <<"O", "l", "d", ".", "m", "k", "v">>}

\* [item for item in contents if item.get('is_dir', False)]
RECURSIVE list_directories(_)
list_directories(contents) ==
    IF contents = <<>> THEN <<>>
    ELSE (IF Head(contents).is_dir THEN <<Head(contents)>> ELSE <<>>)
         \o list_directories(Tail(contents))

\* the first entry of items with the given name, as a sequence of 0 or 1
ByName(items, name) ==
    IF \E i \in 1..Len(items) : items[i].name = name
    THEN <<items[CHOOSE i \in 1..Len(items) :
                    /\ items[i].name = name
                    /\ \A j \in 1..(i - 1) : items[j].name # name]>>
    ELSE <<>>

StartsWithChar(s, c) == s # <<>> /\ s[1] = c

\* the entry a selection answer stands for, as a sequence of 0 or 1:
\* D<n> among the directories, F<n> among the files numbered after the
\* directories, anything else as a name, directories first
SelectItem(contents, choice) ==
    LET directories == list_directories(contents)
        files == list_files(contents)
        number == IF choice = <<>> THEN <<>> ELSE Tail(choice)
        n == DigitsToInt(number) - 1
        k == DigitsToInt(number) - 1 - Len(directories)
    IN  IF StartsWithChar(Lower(choice), "d") /\ IsDigit(number)
        THEN (IF 0 <= n /\ n < Len(directories) THEN <<directories[n + 1]>> ELSE <<>>)
        ELSE IF StartsWithChar(Lower(choice), "f") /\ IsDigit(number)
        THEN (IF 0 <= k /\ k < Len(files) THEN <<files[k + 1]>> ELSE <<>>)
        ELSE IF ByName(directories, choice) # <<>> THEN ByName(directories, choice)
        ELSE ByName(files, choice)

\* SameAsOld, were the new name never compared with the old one
SameAsOldNever(name, old_name) == FALSE

\* "if new_name == old_name"
SameAsOld(name, old_name) == name = old_name

\* full_path: the current path joined with the old name
FullPath(path, old_name) ==
    IF path = "/" THEN <<"/">> \o old_name ELSE PathChars(path) \o <<"/">> \o old_name

InitSingle ==
    /\ token \in BOOLEAN
    /\ current_path \in {"/", "/tv"}
    /\ remote \in Listings
    /\ requests = <<>>
    /\ pc = "single_start"
    /\ mode = "none"
    /\ video_files = <<>>
    /\ idx = 0
    /\ typed = <<>>
    /\ naming_pattern = <<>>
    /\ show_name = <<>>
    /\ season = <<>>
    /\ start_episode = <<>>
    /\ current_episode = 0
    /\ rename_mapping = <<>>
    /\ shown = <<>>
    /\ displayed = FALSE
    /\ confirm = <<>>
    /\ calls = <<>>
    /\ outcome = "none"
    /\ ex_filename = <<>>
    /\ ex_pc = "idle"
    /\ ex_i = 0
    /\ ex_tried = <<>>
    /\ ex_info = NoInfo
    /\ gs_episode_info = NoInfo
    /\ gs_pattern = <<>>
    /\ gs_pc = "idle"
    /\ gs_season = <<>>
    /\ gs_episode = 0
    /\ gs_title = <<>>
    /\ gs_result = <<>>
    /\ built = <<>>
    /\ selected_item = <<>>
    /\ si_new_name = <<>>

SingleFrame ==
    /\ UNCHANGED <<token, current_path, remote, mode, video_files, idx, naming_pattern,
                   show_name, season, start_episode, current_episode, rename_mapping,
                   shown, displayed>>
    /\ UNCHANGED <<exVars, gsVars, built>>

\* get_directory_contents and the return on an empty or failed listing
SingleList ==
    /\ pc = "single_start"
    /\ \E code200 \in BOOLEAN :
        LET r == get_directory_contents(token, PathChars(current_path), remote, code200)
        IN  /\ requests' = requests \o r.sent
            /\ IF r.none \/ r.content = <<>> THEN Finish("single_empty")
               ELSE pc' = "single_choice" /\ outcome' = outcome
    /\ UNCHANGED <<typed, confirm, calls, selected_item, si_new_name>>
    /\ SingleFrame

\* the selection prompt
SingleChoose ==
    /\ pc = "single_choice"
    /\ \E line \in SingleChoicePool :
        /\ typed' = <<line>>
        /\ selected_item' = SelectItem(remote, Strip(line))
        /\ IF SelectItem(remote, Strip(line)) = <<>> THEN Finish("not_found")
           ELSE pc' = "single_name" /\ outcome' = outcome
    /\ UNCHANGED <<requests, confirm, calls, si_new_name>>
    /\ SingleFrame

\* the new name prompt and its two early returns
SingleNewName ==
    /\ pc = "single_name"
    /\ \E line \in SingleNamePool :
        /\ si_new_name' = Strip(line)
        /\ IF Strip(line) = <<>> THEN Finish("empty_name")
           ELSE IF SameAsOld(Strip(line), selected_item[1].name) THEN Finish("same_name")
           ELSE pc' = "single_confirm" /\ outcome' = outcome
    /\ UNCHANGED <<requests, typed, confirm, calls, selected_item>>
    /\ SingleFrame

\* the confirmation prompt and, on yes, rename_single_item with its request
SingleConfirm ==
    /\ pc = "single_confirm"
    /\ \E answer \in ConfirmPool, code200 \in BOOLEAN :
        /\ confirm' = answer
        /\ IF Affirmative(answer)
           THEN LET full_path == FullPath(current_path, selected_item[1].name)
                    r == rename_single_item(token, full_path, si_new_name, code200)
                IN  /\ calls' = Append(calls, [path |-> full_path, new_name |-> si_new_name])
                    /\ requests' = requests \o r.sent
                    /\ Finish(IF r.result THEN "renamed" ELSE "rename_failed")
           ELSE /\ Finish("cancelled")
                /\ UNCHANGED <<calls, requests>>
    /\ UNCHANGED <<typed, selected_item, si_new_name>>
    /\ SingleFrame

\* Ctrl-C at one of the three prompts: KeyboardInterrupt is caught
SingleInterrupt ==
    /\ pc \in {"single_choice", "single_name", "single_confirm"}
    /\ Finish("interrupted")
    /\ UNCHANGED <<requests, typed, confirm, calls, selected_item, si_new_name>>
    /\ SingleFrame

NextSingle ==
    \/ SingleList
    \/ SingleChoose
    \/ SingleNewName
    \/ SingleConfirm
    \/ SingleInterrupt

SpecSingle == InitSingle /\ [][NextSingle]_vars

\* ------------------------------------------------------------------------
\* Properties
\* ------------------------------------------------------------------------

EndsWith(s, suffix) ==
    Len(s) >= Len(suffix) /\ SubSeq(s, Len(s) - Len(suffix) + 1, Len(s)) = suffix

StartsWith(s, prefix) ==
    Len(s) >= Len(prefix) /\ SubSeq(s, 1, Len(prefix)) = prefix

\* the text of a name from its last dot on, the dot included
LastDotSuffix(name) == SubSeq(name, RFind(name, "."), Len(name))

\* the answers of ConfirmPool that say yes
YesAnswers == {<<"y">>, <<" ", "Y">>, <<"y", "e", "s">>}

\* C1: batch_rename is called only after the complete plan was printed and
\* the user then answered yes; a declined, defaulted or interrupted
\* confirmation never leads to a call of batch_rename.
C1_DispatchOnlyAfterConfirmedPlan ==
    /\ calls # <<>> =>
        /\ Len(calls) = 1
        /\ displayed
        /\ calls[1].rename_mapping = shown
        /\ shown = rename_mapping
        /\ confirm \in YesAnswers
    /\ (outcome \in {"cancelled", "interrupted"} \/ (pc = "done" /\ confirm \notin YesAnswers))
        => calls = <<>> /\ \A i \in 1..Len(requests) : requests[i].api # "batch_rename"

C1_Witness ==
    /\ calls # <<>>
    /\ mode = "unified"
    /\ Len(shown) = 2
    /\ confirm = <<" ", "Y">>

\* C2: the plan of smart_rename has one entry per input file, in input
\* order, mapping the file name to the name rendered from the extracted
\* info with the one chosen naming pattern, followed by the file extension.
C2_AutoDetectPlan ==
    (mode = "smart" /\ displayed) =>
        /\ Len(shown) = Len(video_files)
        /\ \A i \in 1..Len(video_files) :
            LET f == video_files[i]
            IN  /\ shown[i].old = f
                /\ shown[i].new =
                       generate_standard_name(extract_episode_info(f), naming_pattern)
                           \o LastDotSuffix(f)
                /\ (f = <<"b", "0", "9", ".", "M", "K", "V">> /\ naming_pattern = Preset1)
                       => shown[i].new = <<"b", ".", "S", "0", "0", "E", "0", "9", ".", "M", "K", "V">>
                /\ (f = <<"S", "h", "o", "w", ".", "S", "0", "1", "E", "0", "2", ".", "m", "k", "v">> /\ naming_pattern = Preset2)
                       => shown[i].new = <<"S", "e", "a", "s", "o", "n", "_", "0", "1", "_", "E", "p", "i", "s", "o", "d", "e", "_", "0", "2", "_", "S", "h", "o", "w", ".", "m", "k", "v">>

C2_Witness ==
    /\ mode = "smart"
    /\ displayed
    /\ naming_pattern = Preset1
    /\ Len(shown) = 2
    /\ shown[1] = [old |-> <<"b", "0", "9", ".", "M", "K", "V">>, new |-> <<"b", ".", "S", "0", "0", "E", "0", "9", ".", "M", "K", "V">>]

\* C3 as stated: under every strategy, manual_rename included, each new
\* name of the plan ends with the extension of its key.
C3_EveryStrategyKeepsExtension ==
    \A i \in 1..Len(rename_mapping) :
        EndsWith(rename_mapping[i].new, LastDotSuffix(rename_mapping[i].old))

\* C3, amended: in the plans of smart_rename and unified_rename each new
\* name ends with the extension of its key (the text from the last dot of
\* the key), unchanged in case and content; manual_rename appends nothing
\* to the name the user typed.
C3_RenderedPlansKeepExtension ==
    /\ mode \in {"smart", "unified"} =>
        \A i \in 1..Len(rename_mapping) :
            EndsWith(rename_mapping[i].new, LastDotSuffix(rename_mapping[i].old))
    /\ mode = "manual" =>
        \A i \in 1..Len(rename_mapping) :
            \E j \in 1..Len(typed) : rename_mapping[i].new = Strip(typed[j])

C3_Witness ==
    /\ mode = "unified"
    /\ displayed
    /\ \E i \in 1..Len(shown) :
        /\ shown[i].old = <<"b", "0", "9", ".", "M", "K", "V">>
        /\ EndsWith(shown[i].new, <<".", "M", "K", "V">>)

\* the four pattern rules in the order of the source
C4_Rule(k) == <<Pattern1, Pattern2, Pattern3, Pattern4>>[k]

C4_Found(k, name) == re_search(C4_Rule(k), name)

C4_Matching(name) == {k \in 1..4 : C4_Found(k, name).ok}

\* C4: extract_episode_info searches the four rules in the order 1, 2, 3, 4
\* and returns the info of the lowest-numbered rule that matches; a rule is
\* searched only after every earlier rule failed.
C4_FirstMatchingRuleWins ==
    /\ ex_pc = "loop" =>
        /\ ex_tried = [i \in 1..(ex_i - 1) |-> i]
        /\ \A k \in 1..(ex_i - 1) : k \notin C4_Matching(ex_filename)
    /\ ex_pc = "returned" =>
        LET matching == C4_Matching(ex_filename)
        IN  IF matching = {} THEN ex_tried = <<1, 2, 3, 4>>
            ELSE LET k == CHOOSE k \in matching : \A j \in matching : k <= j
                 IN  /\ ex_tried = [i \in 1..k |-> i]
                     /\ ex_info = GroupsInfo(MatchGroups(C4_Rule(k), ex_filename,
                                                         C4_Found(k, ex_filename)))
                     /\ ex_info = extract_episode_info(ex_filename)

C4_Witness ==
    /\ ex_pc = "returned"
    /\ ex_tried = <<1, 2, 3>>
    /\ C4_Matching(ex_filename) = {3}

\* C5: for a name Title, separator, S, season digits, E, episode digits and
\* extension (Title without digits, not beginning or ending with a
\* separator), the title returned starts with Title and the season and the
\* episode returned have the integer values written in the name.
C5_SeasonEpisodeFamily ==
    ex_pc = "returned" =>
        \A t \in ExTitles, sp \in ExSeps, sd \in ExSeasonDigits :
            \A c \in {<<"S", "E">>, <<"s", "e">>} :
                StartsWith(ex_filename, t \o sp \o <<c[1]>> \o sd \o <<c[2]>>) =>
                    \A ed \in ExEpisodeDigits, ext \in ExExts :
                        ex_filename = t \o sp \o <<c[1]>> \o sd \o <<c[2]>> \o ed \o ext =>
                            /\ StartsWith(ex_info.title, t)
                            /\ IsDigit(ex_info.season)
                            /\ DigitsToInt(ex_info.season) = DigitsToInt(sd)
                            /\ IsDigit(ex_info.episode)
                            /\ DigitsToInt(ex_info.episode) = DigitsToInt(ed)

C5_Witness ==
    /\ ex_pc = "returned"
    /\ ex_filename = <<"S", "h", "o", "w", ".", "S", "0", "1", "E", "0", "2", ".", "m", "k", "v">>
    /\ ex_info = [title |-> <<"S", "h", "o", "w">>, season |-> <<"0", "1">>, episode |-> <<"0", "2">>]

\* the name without the text from its last dot on; a name whose last dot
\* has only dots before it has no extension
C6_Stem(name) ==
    LET d == RFind(name, ".")
    IN  IF d > 1 /\ \E k \in 1..(d - 1) : name[k] # "." THEN SubSeq(name, 1, d - 1)
        ELSE name

\* C6: extract_episode_info always returns an info; when no rule matches it
\* returns the stem of the name as title, season "1" and episode "1".
C6_FallbackWhenNoRuleMatches ==
    /\ ex_pc = "loop" => ex_i \in 1..5 /\ ex_info = NoInfo
    /\ ex_pc = "returned" =>
        /\ IsDigit(ex_info.season)
        /\ IsDigit(ex_info.episode)
        /\ C4_Matching(ex_filename) = {} =>
               ex_info = [title |-> C6_Stem(ex_filename), season |-> <<"1">>,
                          episode |-> <<"1">>]
        /\ ex_filename = <<"R", "a", "n", "d", "o", "m", "N", "a", "m", "e", ".", "m", "p", "4">> =>
               ex_info = [title |-> <<"R", "a", "n", "d", "o", "m", "N", "a", "m", "e">>, season |-> <<"1">>, episode |-> <<"1">>]

C6_Witness ==
    /\ ex_pc = "returned"
    /\ ex_filename = <<"R", "a", "n", "d", "o", "m", "N", "a", "m", "e", ".", "m", "p", "4">>
    /\ ex_tried = <<1, 2, 3, 4>>
    /\ ex_info.title = <<"R", "a", "n", "d", "o", "m", "N", "a", "m", "e">>

\* C7: in unified_rename the i-th file of the input order is rendered with
\* the episode number start + i (i from 0), and with the one title and the
\* one season typed, whatever digits its own name holds.
C7_SequentialNumbering ==
    mode = "unified" =>
        /\ \A i \in 1..Len(rename_mapping) :
            LET r == Format(naming_pattern, ZFill(season, 2),
                            DigitsToInt(start_episode) + (i - 1), show_name)
            IN  /\ rename_mapping[i].old = video_files[i]
                /\ r.ok
                /\ rename_mapping[i].new = r.text \o LastDotSuffix(video_files[i])
        /\ (/\ naming_pattern = Preset1
            /\ show_name = <<"F", "o", "o">>
            /\ season = <<"2">>
            /\ start_episode = <<"5">>
            /\ Len(rename_mapping) = 2
            /\ video_files = <<<<"S", "h", "o", "w", ".", "S", "0", "1", "E", "0", "2", ".", "m", "k", "v">>, <<"b", "0", "9", ".", "M", "K", "V">>>>)
            => /\ rename_mapping[1].new = <<"F", "o", "o", ".", "S", "0", "2", "E", "0", "5", ".", "m", "k", "v">>
               /\ rename_mapping[2].new = <<"F", "o", "o", ".", "S", "0", "2", "E", "0", "6", ".", "M", "K", "V">>

C7_Witness ==
    /\ mode = "unified"
    /\ displayed
    /\ start_episode = <<"5">>
    /\ video_files = <<<<"S", "h", "o", "w", ".", "S", "0", "1", "E", "0", "2", ".", "m", "k", "v">>, <<"b", "0", "9", ".", "M", "K", "V">>>>
    /\ shown[2].new = <<"F", "o", "o", ".", "S", "0", "2", "E", "0", "6", ".", "M", "K", "V">>

\* C8: in manual_rename a file whose new name was left empty is absent from
\* the plan, and every other file is mapped to exactly the name given (the
\* line read, surrounding blanks removed); with k empty names among the N
\* prompts answered the plan has N - k entries.
C8_ManualPlan ==
    mode = "manual" =>
        /\ Len(typed) <= Len(video_files)
        /\ \A i \in 1..Len(typed) :
            IF Strip(typed[i]) = <<>>
            THEN video_files[i] \notin DictKeys(rename_mapping)
            ELSE \E j \in 1..Len(rename_mapping) :
                    rename_mapping[j] = [old |-> video_files[i], new |-> Strip(typed[i])]
        /\ Len(rename_mapping) =
               Len(typed) - Cardinality({i \in 1..Len(typed) : Strip(typed[i]) = <<>>})

C8_Witness ==
    /\ mode = "manual"
    /\ displayed
    /\ Len(video_files) = 2
    /\ typed[1] = <<>>
    /\ Len(shown) = 1
    /\ shown[1].old = video_files[2]

\* C9: at every point of the building of a plan, under every strategy, each
\* key of the plan is the name of a file of the input, and no key occurs
\* twice.
C9_KeysFromInput ==
    /\ \A i \in 1..Len(rename_mapping) :
        /\ \E j \in 1..Len(video_files) : rename_mapping[i].old = video_files[j]
        /\ \E j \in 1..Len(remote) :
            remote[j].name = rename_mapping[i].old /\ ~remote[j].is_dir
    /\ \A i, j \in 1..Len(rename_mapping) :
        rename_mapping[i].old = rename_mapping[j].old => i = j
    /\ \A c \in 1..Len(calls) : DictKeys(calls[c].rename_mapping) = DictKeys(rename_mapping)

C9_Witness ==
    /\ pc \in {"smart_loop", "manual_loop", "unified_loop"}
    /\ Len(video_files) = 2
    /\ idx = 2
    /\ Len(rename_mapping) = 1

\* C10: no failure of the rendering leaves a strategy as an exception; the
\* plan is built and printed for all files of the batch.
C10_NoRenderingExceptionEscapes ==
    /\ outcome # "exception"
    /\ (pc \in {"confirm", "done"} /\ mode \in {"smart", "unified"}
            /\ naming_pattern # <<>> /\ outcome # "interrupted")
        => displayed /\ Len(shown) = Len(video_files)

\* the names a replacement field of the template starts with: the text after
\* each { up to the first of } : . [
C11_FieldNames(t) ==
    UNION {{SubSeq(t, i + 1, j - 1) :
                j \in {k \in (i + 1)..(Len(t) + 1) :
                          /\ k = Len(t) + 1 \/ t[k] \in {"}", ":", ".", "["}
                          /\ \A h \in (i + 1)..(k - 1) : t[h] \notin {"}", ":", ".", "["}}} :
           i \in {k \in 1..Len(t) : t[k] = "{"}}

C11_ReferencesUnknown(t) ==
    \E name \in C11_FieldNames(t) : name \notin {KwTitle, KwSeason, KwEpisode}

\* digits, with nothing but whitespace around them
C11_IsInteger(e) ==
    \E a \in 1..Len(e) : \E b \in a..Len(e) :
        /\ \A i \in a..b : e[i] \in Digit
        /\ \A i \in (1..Len(e)) \ (a..b) : e[i] \in Whitespace

\* C11: generate_standard_name always returns; when the template names a
\* placeholder other than title, season and episode, or the episode is no
\* integer, the value returned is the title of episode_info as given.
C11_RenderFallsBackToRawTitle ==
    /\ gs_pc \in {"idle", "try", "format", "except", "returned"}
    /\ gs_pc = "except" => ENABLED GsExcept
    /\ gs_pc = "returned"
           /\ (C11_ReferencesUnknown(gs_pattern) \/ ~C11_IsInteger(gs_episode_info.episode))
       => gs_result = gs_episode_info.title

C11_Witness ==
    /\ gs_pc = "returned"
    /\ gs_pattern = <<"{", "t", "i", "t", "l", "e", "}", "{", "x", "}">>
    /\ gs_episode_info.episode = <<"3">>
    /\ gs_episode_info.title = <<" ", "F", "?", "o", " ">>
    /\ gs_result = <<" ", "F", "?", "o", " ">>

\* the replacement fields of the template: the text between each { and the
\* first } after it
C12_Fields(t) ==
    UNION {{SubSeq(t, i + 1, j - 1) :
                j \in {k \in (i + 1)..Len(t) :
                          t[k] = "}" /\ \A h \in (i + 1)..(k - 1) : t[h] # "}"}} :
           i \in {k \in 1..Len(t) : t[k] = "{"}}

\* a bare title, season or episode, or episode with a numeric width
C12_Allowed(f) ==
    \/ f \in {KwTitle, KwSeason, KwEpisode}
    \/ /\ StartsWith(f, KwEpisode \o <<":">>)
       /\ LET w == SubSeq(f, Len(KwEpisode) + 2, Len(f))
          IN  \/ w # <<>> /\ \A i \in 1..Len(w) : w[i] \in Digit
              \/ /\ Len(w) > 1
                 /\ w[Len(w)] = "d"
                 /\ \A i \in 1..(Len(w) - 1) : w[i] \in Digit

\* C12: a template holding any replacement field other than the bare
\* {title}, {season}, {episode} (or {episode} with a numeric width) is
\* rejected as a template error: the field is never evaluated, so the
\* renderer's result is its fallback, the raw title.
C12_OtherFieldsRejected ==
    gs_pc = "returned" /\ (\E f \in C12_Fields(gs_pattern) : ~C12_Allowed(f))
    => gs_result = gs_episode_info.title

C13_Unsafe == {"<", ">", ":", "\"", "/", "\\", "|", "?", "*"}

C13_Replaced(t) == [i \in 1..Len(t) |-> IF t[i] \in C13_Unsafe THEN "_" ELSE t[i]]

\* the title without the whitespace before its first and after its last
\* character that is no whitespace
C13_Trimmed(t) ==
    LET kept == {i \in 1..Len(t) : t[i] \notin Whitespace}
    IN  IF kept = {} THEN <<>>
        ELSE SubSeq(t, CHOOSE a \in kept : \A i \in kept : a <= i,
                       CHOOSE b \in kept : \A i \in kept : b >= i)

C13_TitleOnly == <<"{", "t", "i", "t", "l", "e", "}">>

\* C13 as stated: the title generate_standard_name substitutes is the title
\* of episode_info with each unsafe character replaced by _ and nothing else
\* added, removed or changed.
C13_TitleOnlyUnsafeReplaced ==
    /\ gs_pc = "format" => gs_title = C13_Replaced(gs_episode_info.title)
    /\ gs_pc = "returned" /\ gs_pattern = C13_TitleOnly
           /\ C11_IsInteger(gs_episode_info.episode)
       => gs_result = C13_Replaced(gs_episode_info.title)

\* C13, amended: the title generate_standard_name substitutes is the title
\* of episode_info with the whitespace around it removed and then each
\* unsafe character replaced by _; nothing else is added, removed or changed.
C13_TitleTrimmedThenReplaced ==
    /\ gs_pc = "format" => gs_title = C13_Replaced(C13_Trimmed(gs_episode_info.title))
    /\ gs_pc = "returned" /\ gs_pattern = C13_TitleOnly
           /\ C11_IsInteger(gs_episode_info.episode)
       => gs_result = C13_Replaced(C13_Trimmed(gs_episode_info.title))

C13_Witness ==
    /\ gs_pc = "returned"
    /\ gs_pattern = C13_TitleOnly
    /\ gs_episode_info.title = <<" ", "F", "?", "o", " ">>
    /\ gs_result = <<"F", "_", "o">>

\* C14: in a plan of unified_rename no new filename holds an unsafe
\* character: those of the show title typed by the user were replaced by _
\* (the patterns and the extensions of the model hold none).
C14_UnifiedPlanHasNoUnsafeCharacter ==
    mode = "unified" =>
        \A i \in 1..Len(rename_mapping) :
            \A k \in 1..Len(rename_mapping[i].new) :
                rename_mapping[i].new[k] \notin C13_Unsafe

\* the season digits, with zeros in front up to two characters
C15_Padded(d) ==
    IF Len(d) >= 2 THEN d
    ELSE IF Len(d) = 1 THEN <<"0">> \o d
    ELSE <<"0", "0">>

\* the season of the i-th plan entry: extracted from the old name by
\* smart_rename, typed once by the user in unified_rename
C15_SeasonOf(i) ==
    IF mode = "smart" THEN extract_episode_info(rename_mapping[i].old).season ELSE season

C15_Contains(s, part) ==
    \E k \in 1..(Len(s) - Len(part) + 1) : SubSeq(s, k, k + Len(part) - 1) = part

\* C15: in every plan built by smart_rename or unified_rename with a preset
\* pattern, the text put in place of {season} is the season digits padded
\* with zeros to two characters, unchanged when they are two or more.
C15_SeasonPaddedToTwo ==
    mode \in {"smart", "unified"} =>
        \A i \in 1..Len(rename_mapping) :
            /\ naming_pattern = Preset2 =>
                   StartsWith(rename_mapping[i].new,
                              <<"S", "e", "a", "s", "o", "n", "_">> \o C15_Padded(C15_SeasonOf(i))
                              \o <<"_", "E", "p", "i", "s", "o", "d", "e", "_">>)
            /\ naming_pattern = Preset1 =>
                   C15_Contains(rename_mapping[i].new,
                                <<".", "S">> \o C15_Padded(C15_SeasonOf(i)) \o <<"E">>)

C15_Witness ==
    /\ mode = "unified"
    /\ season = <<"1">>
    /\ naming_pattern = Preset2
    /\ Len(rename_mapping) = 2
    /\ StartsWith(rename_mapping[2].new,
                  <<"S", "e", "a", "s", "o", "n", "_", "0", "1", "_", "E">>)

C16_BareEpisode == <<"{", "e", "p", "i", "s", "o", "d", "e", "}">>

C16_PaddedEpisode == <<"{", "e", "p", "i", "s", "o", "d", "e", ":", "0", "2", "d", "}">>

\* the decimal digits of the integer an episode text stands for: the text
\* without the whitespace around it and without leading zeros
C16_Decimal(e) ==
    LET d == C13_Trimmed(e)
        nonzero == {i \in 1..Len(d) : d[i] # "0"}
    IN  IF nonzero = {} THEN <<"0">>
        ELSE SubSeq(d, CHOOSE a \in nonzero : \A i \in nonzero : a <= i, Len(d))

\* C16 as stated: a template that uses {episode} without a width renders
\* the episode as an integer padded with zeros to two digits.
C16_BareEpisodeHasDefaultWidth ==
    gs_pc = "returned" /\ gs_pattern = C16_BareEpisode
        /\ C11_IsInteger(gs_episode_info.episode)
    => gs_result = C15_Padded(C16_Decimal(gs_episode_info.episode))

\* C16, amended: a template that uses {episode} without a width renders
\* the episode as its integer value without padding; the two digit padding
\* is the effect of the directive {episode:02d}.
C16_BareEpisodeIsUnpadded ==
    gs_pc = "returned" /\ C11_IsInteger(gs_episode_info.episode) =>
        /\ gs_pattern = C16_BareEpisode
           => gs_result = C16_Decimal(gs_episode_info.episode)
        /\ gs_pattern = C16_PaddedEpisode
           => gs_result = C15_Padded(C16_Decimal(gs_episode_info.episode))

C16_Witness ==
    /\ gs_pc = "returned"
    /\ gs_pattern = C16_BareEpisode
    /\ gs_episode_info.episode = <<"3">>
    /\ gs_result = <<"3">>

\* C17: with the pattern {title}.S{season}E{episode:02d} and an episode
\* made of digits, generate_standard_name returns the sanitized title (the
\* title as C13 settles it), then .S, the season padded with zeros to two
\* digits, then E and the integer value of the episode padded with zeros to
\* two digits; title Foo, season 1, episode 3 give Foo.S01E03.
C17_DefaultPatternRendering ==
    gs_pc = "returned" /\ gs_pattern = Preset1 /\ IsDigit(gs_episode_info.episode) =>
        /\ gs_result = C13_Replaced(C13_Trimmed(gs_episode_info.title))
                       \o <<".", "S">> \o C15_Padded(gs_episode_info.season)
                       \o <<"E">> \o C15_Padded(C16_Decimal(gs_episode_info.episode))
        /\ gs_episode_info = [title |-> <<"F", "o", "o">>, season |-> <<"1">>,
                              episode |-> <<"3">>]
           => gs_result = <<"F", "o", "o", ".", "S", "0", "1", "E", "0", "3">>

C17_Witness ==
    /\ gs_pc = "returned"
    /\ gs_pattern = Preset1
    /\ gs_episode_info = [title |-> <<"F", "o", "o">>, season |-> <<"1">>, episode |-> <<"3">>]
    /\ gs_result = <<"F", "o", "o", ".", "S", "0", "1", "E", "0", "3">>

C18_PlainExts == {<<".", "m", "k", "v">>, <<>>}

\* C18: a name made of a title, separators, E or EP and a run of episode
\* digits (Show.E5.mkv, Show.EP12.mkv) gives the title before the marker,
\* the whole digit run as episode and the season 1.
C18_EpisodeOnlyMarker ==
    ex_pc = "returned" =>
        \A t \in ExTitles, sp \in ExSeps, mk \in {<<"E">>, <<"E", "P">>},
           d \in {<<"5">>, <<"1", "2">>}, ext \in C18_PlainExts :
            ex_filename = t \o sp \o mk \o d \o ext
            => ex_info = [title |-> t, season |-> <<"1">>, episode |-> d]

\* C19: a name of the form Title N of M (Show 3 of 5.mkv, Show 3 of 10.mkv)
\* gives the title Title, the episode N and the season 1; M is used for
\* neither.
C19_PartOfSeries ==
    ex_pc = "returned" =>
        \A t \in ExTitles, m \in {<<"5">>, <<"1", "0">>}, ext \in C18_PlainExts :
            ex_filename = t \o <<" ", "3", " ", "o", "f", " ">> \o m \o ext
            => ex_info = [title |-> t, season |-> <<"1">>, episode |-> <<"3">>]

\* C20: a name made of a title, separators and one run of three or more
\* digits gives the last two digits of the run as episode and the digits
\* before them as season.
C20_CompactCode ==
    ex_pc = "returned" =>
        \A t \in ExTitles, sp \in ExSeps, ext \in C18_PlainExts,
           run \in {<<"1", "0", "2">>, <<"1", "0", "1", "0", "2">>} :
            ex_filename = t \o sp \o run \o ext
            => /\ ex_info.episode = SubSeq(run, Len(run) - 1, Len(run))
               /\ ex_info.season = SubSeq(run, 1, Len(run) - 2)

\* C21: a name made of a title, a separator, season digits, x, episode
\* digits and an extension (Show.1x01.mkv) gives the title, the digits
\* before the x as season and the digits after the x as episode.
C21_SeasonXEpisode ==
    ex_pc = "returned" =>
        \A t \in ExTitles, sp \in ExSeps \ {<<>>}, sd \in {<<"1">>, <<"0", "2">>},
           ed \in {<<"0", "1">>, <<"3">>} :
            ex_filename = t \o sp \o sd \o <<"x">> \o ed \o <<".", "m", "k", "v">>
            => ex_info = [title |-> t, season |-> sd, episode |-> ed]

\* C22: the title returned holds a character that is no separator, so it
\* is not empty once the separators around it are trimmed.
C22_TitleNonEmpty ==
    ex_pc = "returned" =>
        \E i \in 1..Len(ex_info.title) : ex_info.title[i] \notin {" ", ".", "_", "-"}

\* C23: a session whose plan building gives no entry ends with an explicit
\* result (no file, no video file, or nothing set in manual_rename), the
\* confirmation prompt is never reached with an empty plan and batch_rename
\* is never called with an empty rename_mapping.
C23_NoDispatchOfEmptyPlan ==
    /\ \A i \in 1..Len(calls) : calls[i].rename_mapping # <<>>
    /\ pc = "confirm" => rename_mapping # <<>>
    /\ pc = "done" /\ video_files = <<>>
       => outcome \in {"no_files", "no_videos"} /\ calls = <<>>
    /\ pc = "done" /\ mode # "none" /\ idx > Len(video_files) /\ rename_mapping = <<>>
       => outcome = "nothing_set" /\ calls = <<>>

C23_Witness ==
    /\ pc = "done"
    /\ mode = "manual"
    /\ Len(video_files) = 2
    /\ typed = <<<<>>, <<" ">>>>
    /\ rename_mapping = <<>>
    /\ outcome = "nothing_set"

\* C24: a strategy called twice on the same files with the same pattern,
\* show name, season, start episode and typed names builds the same plan
\* twice: same keys, same values, same order.
C24_RebuildGivesSamePlan ==
    Len(built) = 2 /\ built[1].typed = built[2].typed => built[1].plan = built[2].plan

C24_Witness ==
    /\ Len(built) = 2
    /\ mode = "unified"
    /\ start_episode = <<"5">>
    /\ Len(built[1].plan) = 2
    /\ built[2].plan = built[1].plan

C25_Building == pc \in {"smart_loop", "manual_loop", "unified_loop"}

\* C25: no step taken while a plan is being built, from the first file of
\* the loop to the printing of the plan, sends a request or calls
\* batch_rename, and none changes token or current_path.
C25_BuildingIsLocal ==
    [][C25_Building => /\ requests' = requests
                       /\ calls' = calls
                       /\ token' = token
                       /\ current_path' = current_path]_vars

C25_Witness ==
    /\ pc = "confirm"
    /\ mode = "smart"
    /\ Len(rename_mapping) = 2
    /\ displayed
    /\ Len(requests) = 1
    /\ requests[1].api = "list"

\* C26: the request batch_rename sends for a confirmed plan names the
\* current path as src_dir and holds one rename object per line of the
\* plan that was printed, in the same order, with that line's old name as
\* src_name and its new name as new_name; at most one such request is sent.
C26_DispatchIsDisplayedPlan ==
    /\ \A i \in 1..Len(requests) :
           requests[i].api = "batch_rename" =>
               /\ displayed
               /\ requests[i].path = current_path
               /\ Len(requests[i].objects) = Len(shown)
               /\ \A k \in 1..Len(shown) :
                      requests[i].objects[k] = [src_name |-> shown[k].old,
                                                new_name |-> shown[k].new]
    /\ Cardinality({i \in 1..Len(requests) : requests[i].api = "batch_rename"}) <= 1
    /\ \A i \in 1..Len(calls) :
           calls[i] = [src_dir |-> current_path, rename_mapping |-> shown]

C26_Witness ==
    /\ outcome = "renamed"
    /\ Len(shown) = 2
    /\ \E i \in 1..Len(requests) :
           /\ requests[i].api = "batch_rename"
           /\ requests[i].objects[2].src_name = shown[2].old
           /\ shown[2].new # shown[1].new

\* the entries of a listing that are files with a video extension, the
\* extension being compared without regard to case
C27_VideoEntries(listing) ==
    SelectSeq(listing,
              LAMBDA e : /\ ~e.is_dir
                         /\ \E k \in 1..Len(e.name) : e.name[k] = "."
                         /\ Lower(LastDotSuffix(e.name)) \in video_extensions)

\* C27: the files handed to a strategy are the non-directory entries of
\* the listing with a video extension, in listing order, and the keys of
\* the plan are names of these files, each once, in that order.
C27_KeysAreListedVideoFiles ==
    /\ video_files # <<>> =>
           video_files = [i \in 1..Len(C27_VideoEntries(remote)) |->
                              C27_VideoEntries(remote)[i].name]
    /\ \A i \in 1..Len(rename_mapping) :
           \E k \in 1..Len(video_files) :
               /\ rename_mapping[i].old = video_files[k]
               /\ \A j \in 1..(i - 1) :
                      \E h \in 1..(k - 1) : rename_mapping[j].old = video_files[h]
    /\ mode \in {"smart", "unified"} =>
           \A i \in 1..Len(rename_mapping) : rename_mapping[i].old = video_files[i]

C27_Witness ==
    /\ Len(remote) = 2
    /\ remote[1].is_dir
    /\ remote[1].name = <<"O", "l", "d", ".", "m", "k", "v">>
    /\ remote[2].name = <<"b", "0", "9", ".", "M", "K", "V">>
    /\ pc = "confirm"
    /\ Len(rename_mapping) = 1
    /\ rename_mapping[1].old = <<"b", "0", "9", ".", "M", "K", "V">>

\* C28: a call of batch_rename, rename_single_item or
\* get_directory_contents made while no token is held sends no request and
\* returns its failure value (False, False, None); every rename request
\* that is sent carries a token.
C28_NoTokenNoRequest ==
    /\ \A i \in 1..Len(calls) :
           calls[i].fn \in {"batch_rename", "rename_single_item", "get_directory_contents"}
               /\ ~calls[i].token
           => calls[i].sent = 0 /\ calls[i].failed
    /\ \A i \in 1..Len(requests) :
           requests[i].api \in {"batch_rename", "rename"} => requests[i].auth
    /\ Len(requests) = Cardinality({i \in 1..Len(calls) : calls[i].sent = 1})

C28_Witness ==
    /\ Len(calls) = 3
    /\ calls[1].fn = "rename_single_item" /\ ~calls[1].token /\ calls[1].sent = 0
    /\ calls[2].fn = "login" /\ ~calls[2].failed
    /\ calls[3].fn = "rename_single_item" /\ calls[3].sent = 1
    /\ Len(requests) = 2

\* C29: rename_single_item is called at most once, and only when the
\* selection is an entry of the listing, the new name is not empty and
\* differs from that entry's name, and the answer to the confirmation is y
\* or yes; its path is the current path joined with the entry's old name;
\* in every other case no rename request is made.
C29_SingleRenameGuarded ==
    /\ Len(calls) <= 1
    /\ \A i \in 1..Len(calls) :
           /\ Len(selected_item) = 1
           /\ \E k \in 1..Len(remote) : remote[k] = selected_item[1]
           /\ si_new_name # <<>>
           /\ si_new_name # selected_item[1].name
           /\ confirm \in YesAnswers
           /\ calls[i].new_name = si_new_name
           /\ calls[i].path = (IF current_path = "/" THEN <<"/">> ELSE <<"/", "t", "v", "/">>)
                              \o selected_item[1].name
    /\ \A i \in 1..Len(requests) :
           requests[i].api = "rename" =>
               /\ Len(calls) = 1
               /\ requests[i].path = calls[1].path
               /\ requests[i].name = calls[1].new_name
    /\ Cardinality({i \in 1..Len(requests) : requests[i].api = "rename"}) <= Len(calls)

C29_Witness ==
    /\ outcome = "renamed"
    /\ current_path = "/"
    /\ typed = <<<<" ", "f", "2">>>>
    /\ selected_item[1].name = <<"b", "0", "9", ".", "M", "K", "V">>
    /\ calls = <<[path |-> <<"/", "b", "0", "9", ".", "M", "K", "V">>,
                  new_name |-> <<"N", ".", "m", "k", "v">>]>>
    /\ \E i \in 1..Len(requests) : requests[i].api = "rename"

\* the characters of an answer that are decimal digits in the wider sense
C30_Digits == Digit \cup SuperscriptDigits

\* the values the normalisation may give an answer: 1 for an empty answer or
\* one holding a character that is no digit, the integer value of an answer
\* of plain digits; an answer holding a superscript digit may count either
\* as a digit or as none
C30_Values(line) ==
    LET v == Strip(line)
    IN  IF v = <<>> \/ \E i \in 1..Len(v) : v[i] \notin C30_Digits THEN {<<"1">>}
        ELSE IF \A i \in 1..Len(v) : v[i] \in Digit THEN {C16_Decimal(v)}
        ELSE {<<"1">>, <<"2">>}

\* C30: in the Sequential strategy every season and start episode answer is
\* normalised (1 for an empty or non-digit answer, the integer value of a
\* digit answer) and the session goes on to the next prompt; the episode
\* counter is never negative; an empty show title ends the session with no
\* plan entry and no dispatch.
C30_SequentialInputsNormalized ==
    /\ mode = "unified" /\ Len(typed) >= 1
        => outcome # "value_error" /\ season \in C30_Values(typed[1])
    /\ mode = "unified" /\ Len(typed) >= 2
        => outcome # "value_error" /\ start_episode \in C30_Values(typed[2])
    /\ mode = "unified" => current_episode >= 0
    /\ outcome = "empty_show_name"
        => pc = "done" /\ rename_mapping = <<>> /\ shown = <<>> /\ calls = <<>>

====
